---- MODULE Spec2Model ----
(***************************************************************************)
(* Nightingale incident resolution pipeline.                               *)
(*                                                                         *)
(* Orchestrator.process_incident (core/orchestrator.py) drives the         *)
(* reflective loop (agents/marathon.py), the sandbox (core/sandbox.py),    *)
(* the verifier (agents/verifier.py), the confidence scorer and the        *)
(* resolution engine (analysis/confidence.py, analysis/blast_radius.py).   *)
(*                                                                         *)
(* Numbers in [0,1] are exact fractions <<num, den>>; weights and          *)
(* thresholds are in hundredths.                                           *)
(***************************************************************************)
EXTENDS Integers, Sequences, FiniteSets, TLC

VARIABLES
    pc,             \* position of process_incident
    attempt_num,    \* loop variable of ReflectiveReasoningLoop.run
    attempts,       \* ReflectiveReasoningLoop.attempts
    cur,            \* plan of the attempt in progress (Optional)
    prev_failure,   \* run(): previous_failure
    prev_plan,      \* run(): previous_plan
    test_commands,  \* process_incident: test_commands
    total_files,    \* ConfidenceScorer.total_files
    final_plan,     \* process_incident: final_plan (Optional)
    final_result,   \* process_incident: final_result (Optional)
    repo,           \* the working tree at event.repository_path
    sbx,            \* the tree under Sandbox.sandbox_path
    sbxExists,      \* os.path.exists(sandbox_path)
    outside,        \* files above the repository root
    original_hash,  \* Sandbox.original_hash
    integrity,      \* what verify_original_unchanged logged in cleanup
    confidence,     \* process_incident: confidence
    factors,        \* process_incident: factors
    decision,       \* process_incident: decision (Optional)
    hist,           \* observation log of the run (attempts started, writes)
    fnIn,           \* argument of a function under test
    fnOut,          \* its result (Optional)
    record_env,     \* os.getenv("NIGHTINGALE_RECORD_MODE") == "1"
    client,         \* gemini_client._client (Optional)
    cache,          \* the files of ResponseCache.cache_dir, by key
    call,           \* frame of the client call in progress (Optional)
    obs,            \* observation log of the client calls
    threads,        \* the executor threads that share the client: position
                    \* and local values of each
    shared          \* what the threads share: the client's counters, one
                    \* cache file, and the log of what happened

vars == <<pc, attempt_num, attempts, cur, prev_failure, prev_plan,
          test_commands, total_files, final_plan, final_result, repo, sbx,
          sbxExists, outside, original_hash, integrity, confidence, factors,
          decision, hist, fnIn, fnOut, record_env, client, cache, call, obs,
          threads, shared>>

\* the state of the LLM client
clientVars == <<record_env, client, cache, call, obs>>

\* the state of concurrent incident tasks
concVars == <<threads, shared>>

\* the state of process_incident
pipelineVars == <<attempt_num, attempts, cur, prev_failure, prev_plan,
                  test_commands, total_files, final_plan, final_result, repo,
                  sbx, sbxExists, outside, original_hash, integrity,
                  confidence, factors, decision, hist>>

-----------------------------------------------------------------------------
(* Bounds of the model *)

\* longest files_to_change list a model response carries
MaxChanges == 1

\* scores of the decide harness are multiples of 1/(2*Grid), its factors of 1/Grid
Grid == 10

-----------------------------------------------------------------------------
(* Program constants *)

MAX_ATTEMPTS == 3

\* Sandbox.sandbox_path = <repo>/<sandbox_dir>/<sandbox_id>: two levels down
SandboxDepth == 2

\* ConfidenceScorer.__init__ default, and the orchestrator's fallback
DefaultTotalFiles == 100

\* ResolutionEngine.__init__ default resolve_threshold, in hundredths
RESOLVE_THRESHOLD == 85

\* THRESHOLD of analysis/resolution.py, in hundredths
THRESHOLD == 85

\* ATTEMPT_PENALTIES.get(attempt_number, 0.3), in hundredths
DefaultAttemptPenalty == 30

-----------------------------------------------------------------------------
(* Optional values *)

None == <<>>
Some(x) == <<x>>
IsSome(o) == o # <<>>
Get(o) == o[1]

-----------------------------------------------------------------------------
(* Files and trees *)

NoFile == "<absent>"

\* sorted(files) order of the top-level names of the tree
NameOrder == <<"calc.py", "calc.pyc", "test_calc.py">>

FileNames == {NameOrder[i] : i \in 1..Len(NameOrder)}

\* fname.endswith(".pyc") in _compute_dir_hash; "*.pyc" in ignore_patterns
Ignored(name) == name = "calc.pyc"

EmptyTree == [n \in FileNames |-> NoFile]

InitialTree ==
    [n \in FileNames |-> "v0"]

RECURSIVE HashFrom(_, _)
HashFrom(tree, i) ==
    IF i > Len(NameOrder) THEN <<>>
    ELSE LET n == NameOrder[i] IN
         IF Ignored(n) \/ tree[n] = NoFile
         THEN HashFrom(tree, i + 1)
         ELSE <<n, tree[n]>> \o HashFrom(tree, i + 1)

\* _compute_dir_hash: relative path then bytes of every non-ignored file, in
\* sorted order (the digest is taken as injective on that byte stream)
ComputeDirHash(tree) == HashFrom(tree, 1)

\* shutil.copytree(..., ignore=ignore_patterns(...))
CopyTree(tree) == [n \in FileNames |-> IF Ignored(n) THEN NoFile ELSE tree[n]]

-----------------------------------------------------------------------------
(* File changes *)

\* a FileDiff.file_path: `up` leading ".." segments, then a file name
Path(up, name) == [up |-> up, name |-> name]

\* the directory os.path.join(sandbox_path, file_path) resolves into
ResolveInSandbox(p) ==
    IF p.up = 0 THEN "sandbox"
    ELSE IF p.up = SandboxDepth THEN "repo"
    ELSE "outside"

\* the directory os.path.join(repo_path, file_path) resolves into
ResolveInRepo(p) ==
    IF p.up = 0 THEN "repo" ELSE "outside"

\* one FileDiff written through open(file_path, "w") / os.remove
WriteFile(tree, diff) ==
    IF diff.change_type \in {"modify", "add"}
    THEN [tree EXCEPT ![diff.file_path.name] = diff.diff_content]
    ELSE [tree EXCEPT ![diff.file_path.name] = NoFile]

\* the three directories a write can land in
Disk(r, s, o) == [repo |-> r, sandbox |-> s, outside |-> o]

ApplyOne(disk, region, diff) ==
    [disk EXCEPT ![region] = WriteFile(disk[region], diff)]

RECURSIVE SandboxApply(_, _, _)
\* Sandbox.apply_diffs: the first k changes of diffs, in list order
SandboxApply(disk, diffs, k) ==
    IF k = 0 THEN disk
    ELSE LET before == SandboxApply(disk, diffs, k - 1)
             d == diffs[k]
         IN  ApplyOne(before, ResolveInSandbox(d.file_path), d)

RECURSIVE RepoApply(_, _, _)
\* Orchestrator._apply_fix_to_repo: the first k changes of the plan
RepoApply(disk, diffs, k) ==
    IF k = 0 THEN disk
    ELSE LET before == RepoApply(disk, diffs, k - 1)
             d == diffs[k]
         IN  ApplyOne(before, ResolveInRepo(d.file_path), d)

-----------------------------------------------------------------------------
(* Exact fractions *)

RECURSIVE GCD(_, _)
GCD(a, b) == IF b = 0 THEN a ELSE GCD(b, a % b)

LCM(a, b) == (a * b) \div GCD(a, b)

\* the fraction n/d in lowest terms (d > 0, n >= 0)
Frac(n, d) == LET g == GCD(n, d) IN <<n \div g, d \div g>>

FracLess(x, y) == x[1] * y[2] < y[1] * x[2]
FracGeq(x, y) == ~FracLess(x, y)

Zero == <<0, 1>>
One == <<1, 1>>

-----------------------------------------------------------------------------
(* Plans and verification (types.py, agents/verifier.py) *)

\* FixPlan.content_hash: digest of the serialized file changes only
ContentHash(plan) == plan.files_to_change

RECURSIVE SumOver(_, _, _)
SumOver(outs, field, i) ==
    IF i = 0 THEN 0 ELSE outs[i][field] + SumOver(outs, field, i - 1)

\* Verify leaving input_hash blank, as the placeholder result of
\* orchestrator.py 184-187 does
VerifyBlankHash(plan, outs) ==
    LET success == \A i \in 1..Len(outs) : outs[i].code = 0
        passed == SumOver(outs, "passed", Len(outs))
        failed == SumOver(outs, "failed", Len(outs))
        total == passed + failed
        estimate == total = 0 /\ success
    IN  [success |-> success,
         input_hash |-> <<>>,
         output_log |-> [i \in 1..Len(outs) |->
                            [cmd |-> plan.verification_steps[i],
                             code |-> outs[i].code]],
         tests_passed |-> IF estimate THEN 1 ELSE passed,
         tests_failed |-> failed,
         tests_total |-> IF estimate THEN 1 ELSE total,
         exit_code |-> IF Len(outs) = 0 THEN 0 ELSE outs[Len(outs)].code]

\* VerificationAgent.verify leaving its loop at the first failing command
VerifyStopsAtFailure(plan, outs) ==
    LET failing == {i \in 1..Len(outs) : outs[i].code # 0}
        n == IF failing = {} THEN Len(outs)
             ELSE CHOOSE i \in failing : \A j \in failing : i <= j
        success == failing = {}
        passed == SumOver(outs, "passed", n)
        failed == SumOver(outs, "failed", n)
        total == passed + failed
        estimate == total = 0 /\ success
    IN  [success |-> success,
         input_hash |-> ContentHash(plan),
         output_log |-> [i \in 1..n |->
                            [cmd |-> plan.verification_steps[i],
                             code |-> outs[i].code]],
         tests_passed |-> IF estimate THEN 1 ELSE passed,
         tests_failed |-> failed,
         tests_total |-> IF estimate THEN 1 ELSE total,
         exit_code |-> IF n = 0 THEN 0 ELSE outs[n].code]

\* VerificationAgent.verify, given the (exit code, parsed counts) of each
\* command of plan.verification_steps in list order
Verify(plan, outs) ==
    LET success == \A i \in 1..Len(outs) : outs[i].code = 0
        passed == SumOver(outs, "passed", Len(outs))
        failed == SumOver(outs, "failed", Len(outs))
        total == passed + failed
        estimate == total = 0 /\ success
    IN  [success |-> success,
         input_hash |-> ContentHash(plan),
         output_log |-> [i \in 1..Len(outs) |->
                            [cmd |-> plan.verification_steps[i],
                             code |-> outs[i].code]],
         tests_passed |-> IF estimate THEN 1 ELSE passed,
         tests_failed |-> failed,
         tests_total |-> IF estimate THEN 1 ELSE total,
         exit_code |-> IF Len(outs) = 0 THEN 0 ELSE outs[Len(outs)].code]

\* VerificationResult.pass_ratio
PassRatio(result) ==
    IF result.tests_total = 0
    THEN (IF result.success THEN One ELSE Zero)
    ELSE Frac(result.tests_passed, result.tests_total)

-----------------------------------------------------------------------------
(* Command output and its parsing (sandbox.py, verifier.py) *)

\* the longest command output of the verifier's inputs, in lines
MaxLines == 2

\* the longest list of verification commands of the verifier's inputs
MaxCommands == 2

\* the numbers printed in test summaries
Counts == {0, 1, 2}

\* One line of a test command's output, by the pattern of _parse_test_output
\* it matches: "passed" is "<n> passed", "short" is "===== <n> passed in 0.5s
\* =====", "failed" is "<n> failed", "ran" is "Ran <n> tests", "ok" is "OK",
\* "FAILED" is "FAILED (failures=<n>)", "errors" is "FAILED (errors=1)",
\* "jest" is "Tests: <n> passed, <m> failed", "timeout" is run_command's
\* "Command timed out after 60s"
Line(kind, n, m) == [kind |-> kind, n |-> n, m |-> m]

OutputLines ==
    {Line(k, n, 0) : k \in {"passed", "short", "failed", "ran", "FAILED"},
                     n \in Counts}
      \cup {Line("ok", 0, 0), Line("errors", 0, 0)}
      \cup {Line("jest", n, m) : n \in Counts, m \in Counts}

\* re.search: the first line of the output that one of the kinds matches
FirstLine(output, kinds) ==
    LET hits == {i \in 1..Len(output) : output[i].kind \in kinds}
    IN  IF hits = {} THEN None
        ELSE Some(output[CHOOSE i \in hits : \A j \in hits : i <= j])

\* VerificationAgent._parse_test_output
ParseTestOutput(output) ==
    LET pytest_match == FirstLine(output, {"passed", "short", "jest"})
        pytest_fail == FirstLine(output, {"failed", "jest"})
        passed1 == IF IsSome(pytest_match) THEN Get(pytest_match).n ELSE 0
        failed1 == IF IsSome(pytest_fail)
                   THEN (IF Get(pytest_fail).kind = "jest"
                         THEN Get(pytest_fail).m ELSE Get(pytest_fail).n)
                   ELSE 0
        short_match == FirstLine(output, {"short"})
        passed2 == IF passed1 = 0 /\ IsSome(short_match)
                   THEN Get(short_match).n ELSE passed1
        unittest_match == FirstLine(output, {"ran"})
        unittest == IsSome(unittest_match) /\ passed2 = 0 /\ failed1 = 0
        ok == \E i \in 1..Len(output) : output[i].kind = "ok"
        fail_match == FirstLine(output, {"FAILED"})
        counted == unittest /\ ~ok /\ IsSome(fail_match)
        failed3 == IF counted THEN Get(fail_match).n ELSE failed1
        passed3 == IF unittest /\ ok THEN Get(unittest_match).n
                   ELSE IF counted THEN Get(unittest_match).n - failed3
                   ELSE passed2
        jest_match == FirstLine(output, {"jest"})
        passed == IF IsSome(jest_match) THEN Get(jest_match).n ELSE passed3
        failed == IF IsSome(jest_match) THEN Get(jest_match).m ELSE failed3
    IN  [passed |-> passed, failed |-> failed, total |-> passed + failed]

\* One execution of a command by subprocess.run: it exits with a code and an
\* output (stdout + stderr), or it exceeds the timeout
Exited(code, output) == [timeout |-> FALSE, code |-> code, output |-> output]
TimedOut == [timeout |-> TRUE, code |-> 0, output |-> <<>>]

\* Sandbox.run_command: (returncode, stdout + stderr)
RunCommand(run) ==
    IF run.timeout
    THEN [code |-> -1, output |-> <<Line("timeout", 0, 0)>>]
    ELSE [code |-> run.code, output |-> run.output]

\* the loop body of VerificationAgent.verify on one command
RunAndParse(run) ==
    LET r == RunCommand(run)
        parsed == ParseTestOutput(r.output)
    IN  [code |-> r.code, passed |-> parsed.passed, failed |-> parsed.failed]

-----------------------------------------------------------------------------

(* Blast radius and confidence (analysis/blast_radius.py, confidence.py) *)

\* BlastRadiusAnalyzer._classify_file_risk on the names of the model: no
\* CRITICAL, HIGH or MEDIUM pattern is a substring of them, "test_" (LOW) is
\* a substring of test_calc.py, and the default is MEDIUM
ClassifyFileRisk(p) ==
    IF p.name = "test_calc.py" THEN "low" ELSE "medium"

\* risk_scores of _calculate_risk_modifier, in hundredths
RiskScore(risk) ==
    CASE risk = "low" -> 100
      [] risk = "medium" -> 70
      [] risk = "high" -> 40
      [] risk = "critical" -> 10

RECURSIVE RiskSum(_, _)
RiskSum(changes, i) ==
    IF i = 0 THEN 0
    ELSE RiskScore(ClassifyFileRisk(changes[i].file_path)) + RiskSum(changes, i - 1)

Max(a, b) == IF a >= b THEN a ELSE b
Min(a, b) == IF a <= b THEN a ELSE b

\* BlastRadiusAnalyzer.analyze: inverse_blast_radius and risk_modifier
BlastAnalyze(changes, totalFiles) ==
    IF Len(changes) = 0
    THEN [inverse_blast_radius |-> One, risk_modifier |-> One]
    ELSE LET t == Max(totalFiles, 1)
             n == Len(changes)
         IN  [inverse_blast_radius |-> Frac(t - Min(n, t), t),
              risk_modifier |-> Frac(RiskSum(changes, n), 100 * n)]

\* ATTEMPT_PENALTIES without a penalty
AttemptPenaltyFlat(k) == Frac(100, 100)

\* ConfidenceScorer.ATTEMPT_PENALTIES.get(attempt_number, 0.3)
AttemptPenalty(k) ==
    CASE k = 1 -> Frac(100, 100)
      [] k = 2 -> Frac(70, 100)
      [] k = 3 -> Frac(40, 100)
      [] OTHER -> Frac(DefaultAttemptPenalty, 100)

\* ConfidenceFactors()
DefaultFactors ==
    [test_pass_ratio |-> Zero,
     inverse_blast_radius |-> One,
     attempt_penalty |-> One,
     risk_modifier |-> Frac(1, 2),
     self_consistency_score |-> Frac(1, 2)]

FactorNames == <<"test_pass_ratio", "inverse_blast_radius", "attempt_penalty",
                 "risk_modifier", "self_consistency_score">>

\* ConfidenceScorer.WEIGHTS, in hundredths
WEIGHTS ==
    [test_pass_ratio |-> 35,
     inverse_blast_radius |-> 25,
     attempt_penalty |-> 15,
     risk_modifier |-> 15,
     self_consistency_score |-> 10]

\* weighted_score taking every factor with the same weight
WeightUniform(name) == 20

\* weighted_score with 0.15 of the tests' weight moved to the model's own
\* confidence
WeightTestsLight(name) ==
    CASE name = "test_pass_ratio" -> 20
      [] name = "inverse_blast_radius" -> 25
      [] name = "attempt_penalty" -> 15
      [] name = "risk_modifier" -> 15
      [] name = "self_consistency_score" -> 25

\* the weights of ConfidenceFactors.weighted_score, in hundredths
Weight(name) ==
    CASE name = "test_pass_ratio" -> 35
      [] name = "inverse_blast_radius" -> 25
      [] name = "attempt_penalty" -> 15
      [] name = "risk_modifier" -> 15
      [] name = "self_consistency_score" -> 10

RECURSIVE DenLCM(_, _)
DenLCM(f, i) ==
    IF i = 0 THEN 1 ELSE LCM(f[FactorNames[i]][2], DenLCM(f, i - 1))

RECURSIVE WeightedNum(_, _, _)
WeightedNum(f, l, i) ==
    IF i = 0 THEN 0
    ELSE LET x == f[FactorNames[i]]
         IN  Weight(FactorNames[i]) * x[1] * (l \div x[2]) + WeightedNum(f, l, i - 1)

\* ConfidenceFactors.weighted_score
WeightedScore(f) ==
    LET l == DenLCM(f, Len(FactorNames))
    IN  Frac(WeightedNum(f, l, Len(FactorNames)), 100 * l)

\* max(0.0, min(1.0, final_score))
Clamp(x) == IF FracLess(One, x) THEN One ELSE x

\* ConfidenceScorer.calculate
Calculate(plan, result, attemptNumber, totalFiles) ==
    LET blast == BlastAnalyze(plan.files_to_change, totalFiles)
        f == [test_pass_ratio |->
                  IF result.success THEN PassRatio(result) ELSE Zero,
              inverse_blast_radius |-> blast.inverse_blast_radius,
              attempt_penalty |-> AttemptPenalty(attemptNumber),
              risk_modifier |-> blast.risk_modifier,
              self_consistency_score |-> plan.confidence_score]
    IN  [score |-> Clamp(WeightedScore(f)), factors |-> f]

\* ResolutionEngine.decide of analysis/resolution.py
DecideByThreshold(score) ==
    IF FracGeq(score, Frac(THRESHOLD, 100)) THEN "resolve" ELSE "escalate"

\* ResolutionEngine.decide with `>` for `>=` in the threshold test
DecideStrict(score, f, threshold) ==
    IF FracLess(Frac(threshold, 100), score)
    THEN IF IsSome(f) /\ FracLess(Get(f).test_pass_ratio, Frac(1, 2)) THEN "escalate"
         ELSE IF IsSome(f) /\ FracLess(Get(f).inverse_blast_radius, Frac(3, 10))
              THEN "escalate"
         ELSE "resolve"
    ELSE "escalate"

\* ResolutionEngine.decide; f is the Optional factors argument
Decide(score, f, threshold) ==
    IF FracGeq(score, Frac(threshold, 100))
    THEN IF IsSome(f) /\ FracLess(Get(f).test_pass_ratio, Frac(1, 2)) THEN "escalate"
         ELSE IF IsSome(f) /\ FracLess(Get(f).inverse_blast_radius, Frac(3, 10))
              THEN "escalate"
         ELSE "resolve"
    ELSE "escalate"

-----------------------------------------------------------------------------
(* Workflow parsing (core/workflow_parser.py) *)

\* lines of a step's `run` text; "make build" holds no TEST_KEYWORDS entry,
\* "# run tests" is a comment that holds one
KeywordLines == {"pytest", "npm test", "# run tests"}

Step(namesTest, run) == [names_test |-> namesTest, run |-> run]
Job(namesTest, steps) == [names_test |-> namesTest, steps |-> steps]

\* a workflow file: its YAML loads into a document with jobs, or it does not
Doc(jobs) == [loads |-> TRUE, jobs |-> jobs]
Unparsable == [loads |-> FALSE, jobs |-> <<>>]

\* WorkflowParser.parse_workflow: {} when yaml.safe_load fails
ParseWorkflow(file) == IF file.loads THEN file.jobs ELSE <<>>

\* line.strip() is non-empty and does not start with '#'
IsCommand(line) == line # "" /\ line # "# run tests"

RECURSIVE CommandLines(_)
CommandLines(run) ==
    IF run = <<>> THEN <<>>
    ELSE (IF IsCommand(Head(run)) THEN <<Head(run)>> ELSE <<>>)
           \o CommandLines(Tail(run))

\* the loop body of extract_test_commands on one step
StepCommands(isTestJob, step) ==
    IF step.run = <<>> THEN <<>>
    ELSE IF \/ isTestJob
            \/ step.names_test
            \/ \E i \in 1..Len(step.run) : step.run[i] \in KeywordLines
         THEN CommandLines(step.run)
         ELSE <<>>

RECURSIVE JobCommands(_, _)
JobCommands(isTestJob, steps) ==
    IF steps = <<>> THEN <<>>
    ELSE StepCommands(isTestJob, Head(steps)) \o JobCommands(isTestJob, Tail(steps))

\* WorkflowParser.extract_test_commands
RECURSIVE ExtractTestCommands(_)
ExtractTestCommands(jobs) ==
    IF jobs = <<>> THEN <<>>
    ELSE JobCommands(Head(jobs).names_test, Head(jobs).steps)
           \o ExtractTestCommands(Tail(jobs))

\* all_commands of get_test_commands, over the sorted workflow files
RECURSIVE AllCommands(_)
AllCommands(files) ==
    IF files = <<>> THEN <<>>
    ELSE ExtractTestCommands(ParseWorkflow(Head(files))) \o AllCommands(Tail(files))

\* the deduplication keeping the last occurrence of a command
RECURSIVE UniqueKeepsLast(_)
UniqueKeepsLast(cmds) ==
    IF cmds = <<>> THEN <<>>
    ELSE LET rest == Tail(cmds)
         IN  IF \E i \in 1..Len(rest) : rest[i] = Head(cmds)
             THEN UniqueKeepsLast(rest)
             ELSE <<Head(cmds)>> \o UniqueKeepsLast(rest)

\* workflow_parser.py 127-135: seen / unique_commands
RECURSIVE Unique(_)
Unique(cmds) ==
    IF cmds = <<>> THEN <<>>
    ELSE LET front == Unique(SubSeq(cmds, 1, Len(cmds) - 1))
             last == cmds[Len(cmds)]
         IN  IF \E i \in 1..Len(front) : front[i] = last
             THEN front
             ELSE Append(front, last)

\* WorkflowParser._detect_test_framework on the set of marker files present
DetectTestFramework(markers) ==
    IF markers \cap {"pyproject.toml", "setup.py", "requirements.txt"} # {}
    THEN <<"python -m pytest -v">>
    ELSE IF "package.json" \in markers THEN <<"npm test">>
    ELSE IF "go.mod" \in markers THEN <<"go test ./...">>
    ELSE IF "Cargo.toml" \in markers THEN <<"cargo test">>
    ELSE <<"python -m pytest -v">>

\* WorkflowParser.get_test_commands
GetTestCommands(files, markers) ==
    LET all_commands == AllCommands(files)
    IN  IF all_commands # <<>> THEN Unique(all_commands)
        ELSE DetectTestFramework(markers)

-----------------------------------------------------------------------------

(* Inputs of one incident *)

FileDiff(p, t, c) == [file_path |-> p, change_type |-> t, diff_content |-> c]

\* the file changes a model response can name: a rewrite, a delete, and a
\* rewrite whose path climbs out of the sandbox directory
DiffDomain ==
    {FileDiff(Path(0, "calc.py"), "modify", "v1"),
     FileDiff(Path(0, "test_calc.py"), "delete", ""),
     FileDiff(Path(SandboxDepth, "calc.py"), "add", "v2")}

RECURSIVE SeqsUpTo(_, _)
SeqsUpTo(S, n) ==
    IF n = 0 THEN {<<>>}
    ELSE LET shorter == SeqsUpTo(S, n - 1)
         IN  shorter \cup {Append(q, x) : q \in {r \in shorter : Len(r) = n - 1}, x \in S}

\* the changes of one response: each change is named at most once, in any order
ChangeLists ==
    {q \in SeqsUpTo(DiffDomain, MaxChanges) : \A i, j \in 1..Len(q) : q[i] = q[j] => i = j}

\* GeminiFixResponse.confidence values (validated to lie in [0,1])
ConfidenceChoices == {One}

\* GeminiFixResponse.verification_commands of the responses
ResponseCommands == <<"make check">>

\* errors MarathonAgent.analyze lets through (GeminiClientError subclasses)
GenErrors == {"QuotaExhaustedError", "SchemaValidationError"}

\* what WorkflowParser.get_test_commands can return for the repository
TestCommandLists == {<<"python -m pytest -v">>}

\* len(context_loader.list_files()) of the repository
TotalFilesChoices == {2, DefaultTotalFiles}

\* exit code and parsed (passed, failed) of one verification command
RunOutcomes ==
    {[code |-> 0, passed |-> 2, failed |-> 0],
     [code |-> 0, passed |-> 0, failed |-> 0],
     [code |-> 1, passed |-> 1, failed |-> 1]}

InitialTrees ==
    {InitialTree, [InitialTree EXCEPT !["test_calc.py"] = NoFile]}

-----------------------------------------------------------------------------
(* LLM client: prompts, responses and the response cache *)

\* GeminiClient.MAX_RETRIES
MAX_RETRIES == 3

\* generate_structured: default of max_validation_retries
max_validation_retries == 3

\* a prompt string: what it was built for and the text it was built from
Prompt(kind, arg) == [kind |-> kind, arg |-> arg]

\* prompts the callers of the client pass in
TaskPrompts == {Prompt("task", "incident")}

\* generate_structured 288: f"{prompt}\n\n{schema_instruction}"
StructuredPrompt(p) == Prompt("structured", p.arg)

\* response.text of a model call: a bare record, a record inside a markdown
\* code fence (<fence> is the three-backquote line), text that is not JSON,
\* JSON with wrong fields
Texts == {"{plan}", "<fence>json{plan}<fence>", "oops", "{other}"}

\* generate_structured 295-302: strip, and the code fence removed
Clean(text) == IF text = "<fence>json{plan}<fence>" THEN "{plan}" ELSE text

\* json.loads: None stands for JSONDecodeError
JsonLoads(cleaned) ==
    IF cleaned \in {"{plan}", "{other}"} THEN Some(cleaned) ELSE None

\* str(e) of the JSONDecodeError
JsonError(cleaned) == "Expecting value"

\* response_model.model_validate: None stands for the ValidationError
ModelValidate(data) ==
    IF data = "{plan}" THEN Some("GeminiFixResponse") ELSE None

\* str(e) of the ValidationError
ValidationError(data) == "1 validation error"

\* generate_structured 311-315: the re-prompt after a parse failure; it is
\* built from the error and the schema instruction only
CorrectiveJson(e) == Prompt("fix_json", e)

\* generate_structured 329-333: the re-prompt after a validation failure
CorrectiveFields(e) == Prompt("fix_fields", e)

CorrectivePrompts ==
    {CorrectiveJson(JsonError("oops")), CorrectiveFields(ValidationError("{other}"))}

\* every prompt generate is called with
PromptSpace ==
    TaskPrompts \cup {StructuredPrompt(p) : p \in TaskPrompts}
                \cup CorrectivePrompts

\* ResponseCache._key: the SHA-256 hex digest, taken as injective
Key(prompt) == [sha256 |-> prompt]

\* a file <key>.json of cache_dir and its "response" field
CacheFile(key, text) == [key |-> key, response |-> text]

\* no file in cache_dir
EmptyCache == {}

\* path.exists() and data["response"] of the file of a key
ReadFile(c, key) ==
    IF \E f \in c : f.key = key
    THEN Some((CHOOSE f \in c : f.key = key).response)
    ELSE None

\* path.write_text: the file of the key is created or replaced
WriteText(c, key, text) ==
    {f \in c : f.key # key} \cup {CacheFile(key, text)}

\* ResponseCache.get
CacheGet(c, enabled, prompt) ==
    IF ~enabled THEN None ELSE ReadFile(c, Key(prompt))

\* put that files every response under the key of the task prompt
CachePutOneKey(c, enabled, prompt, text) ==
    IF ~enabled THEN c
    ELSE WriteText(c, Key(CHOOSE p \in TaskPrompts : TRUE), text)

\* put that keeps an entry that is already there
CachePutKeepsFirst(c, enabled, prompt, text) ==
    IF ~enabled \/ IsSome(ReadFile(c, Key(prompt))) THEN c
    ELSE WriteText(c, Key(prompt), text)

\* ResponseCache.put
CachePut(c, enabled, prompt, text) ==
    IF ~enabled THEN c ELSE WriteText(c, Key(prompt), text)

\* str(e) of what client.models.generate_content raises
NetErrors ==
    {"429 RESOURCE_EXHAUSTED", "503 UNAVAILABLE", "400 INVALID_ARGUMENT"}

\* _retry_with_backoff 173-175: "429", "rate", "quota", "resource_exhausted"
IsQuota(e) == e = "429 RESOURCE_EXHAUSTED"

\* _retry_with_backoff 176-178: "500", "503", "timeout", "unavailable"
IsTransient(e) == e = "503 UNAVAILABLE"

\* what one network request comes back with
NetOutcomes ==
    {[ok |-> TRUE, text |-> t] : t \in Texts}
        \cup {[ok |-> FALSE, text |-> e] : e \in NetErrors}

\* GeminiClient.__init__ (with GEMINI_API_KEY set)
GeminiClient(recordMode) ==
    Some([record_mode |-> recordMode, cache_enabled |-> TRUE])

\* get_gemini_client
GetGeminiClient(c, recordMode) ==
    IF c = None THEN GeminiClient(recordMode) ELSE c

\* the frame of a generate / generate_structured call
Frame(op, prompt, attempt, retry) ==
    [op |-> op, prompt |-> prompt, attempt |-> attempt, retry |-> retry]

Return(v) == [kind |-> "return", value |-> v]
Raise(e) == [kind |-> "raise", value |-> e]

\* the observation log before any call
NoObs ==
    [recorded |-> FALSE,  \* an Orchestrator was constructed in record mode
     model |-> {},        \* <<prompt, text>> of every successful model call
     entry |-> None,      \* cache.get at the entry of the last generate
     requests |-> 0,      \* network requests of the last generate
     generates |-> 0,     \* generate calls of the call in progress
     responses |-> <<>>]  \* what they returned, in order

\* no client activity
ClientUnused ==
    /\ record_env = FALSE
    /\ client = None
    /\ cache = EmptyCache
    /\ call = None
    /\ obs = NoObs

-----------------------------------------------------------------------------
\* no thread pool is running
ConcUnused ==
    /\ threads = <<>>
    /\ shared = <<>>

\* no incident is in process
PipelineUnused ==
    /\ attempt_num = 0
    /\ attempts = <<>>
    /\ cur = None
    /\ prev_failure = None
    /\ prev_plan = None
    /\ test_commands = <<>>
    /\ total_files = DefaultTotalFiles
    /\ final_plan = None
    /\ final_result = None
    /\ repo = InitialTree
    /\ sbx = EmptyTree
    /\ sbxExists = FALSE
    /\ outside = EmptyTree
    /\ original_hash = None
    /\ integrity = "unchecked"
    /\ confidence = Zero
    /\ factors = DefaultFactors
    /\ decision = None
    /\ hist = [repo0 |-> repo, started |-> <<>>, applied |-> 0,
               prompt |-> None, verified |-> None]

-----------------------------------------------------------------------------

(* process_incident *)

AttemptRecord(k, plan, result, reason) ==
    [attempt_number |-> k, fix_plan |-> plan,
     verification_result |-> result, failure_reason |-> reason]

\* MarathonAgent._build_prompt: the incident and the context of the HEAD
\* commit, which are the same in every attempt, and the "Previous Attempt
\* Failed" block with the attempt number, the previous plan's rationale and
\* root cause (the plan stands for them) and the failure logs
BuildPrompt(attemptNumber, previousFailure, previousPlan) ==
    [kind |-> "task",
     arg |-> "incident",
     reflection |->
        IF attemptNumber > 1 /\ IsSome(previousFailure) /\ IsSome(previousPlan)
        THEN Some([attempt |-> attemptNumber,
                   plan |-> Get(previousPlan),
                   failure |-> Get(previousFailure)])
        ELSE None]

\* MarathonAgent._response_to_plan
ResponseToPlan(changes, conf, k, previousFailure) ==
    [files_to_change |-> changes,
     verification_steps |-> ResponseCommands,
     confidence_score |-> conf,
     attempt_number |-> k,
     previous_failure_context |-> previousFailure]

InitIncident ==
    /\ pc = "start"
    /\ attempt_num = 0
    /\ attempts = <<>>
    /\ cur = None
    /\ prev_failure = None
    /\ prev_plan = None
    /\ test_commands = <<>>
    /\ total_files = DefaultTotalFiles
    /\ final_plan = None
    /\ final_result = None
    /\ repo \in InitialTrees
    /\ sbx = EmptyTree
    /\ sbxExists = FALSE
    /\ outside = EmptyTree
    /\ original_hash = None
    /\ integrity = "unchecked"
    /\ confidence = Zero
    /\ factors = DefaultFactors
    /\ decision = None
    /\ hist = [repo0 |-> repo, started |-> <<>>, applied |-> 0,
               prompt |-> None, verified |-> None]
    /\ fnIn = None
    /\ fnOut = None
    /\ ClientUnused
    /\ ConcUnused

\* orchestrator.py 62-87: context loader, workflow parser, loop and sandbox
\* objects.  git.Repo(...) and get_test_commands() are outside any try.
LoadContext ==
    /\ pc = "start"
    /\ \/ /\ pc' = "raised"
          /\ UNCHANGED <<attempt_num, test_commands, total_files>>
       \/ /\ total_files' \in TotalFilesChoices
          /\ test_commands' \in TestCommandLists
          /\ attempt_num' = 1
          /\ pc' = "generating"
    /\ UNCHANGED <<attempts, cur, prev_failure, prev_plan, final_plan,
                   final_result, repo, sbx, sbxExists, outside, original_hash,
                   integrity, confidence, factors, decision, hist, fnIn, fnOut, clientVars, concVars>>

\* NextAttempt with range(1, MAX_ATTEMPTS + 2): one attempt too many
NextAttemptOneMore(rec) ==
    /\ attempts' = Append(attempts, rec)
    /\ cur' = None
    /\ IF attempt_num < MAX_ATTEMPTS + 1
       THEN /\ attempt_num' = attempt_num + 1
            /\ pc' = "generating"
            /\ UNCHANGED <<final_plan, final_result>>
       ELSE /\ pc' = "cleanup"
            /\ final_plan' = None
            /\ final_result' = None
            /\ UNCHANGED attempt_num

\* NextAttempt without the append of marathon.py 338 (a `continue` in the
\* failure branch)
NextAttemptNoAppend(rec) ==
    /\ attempts' = attempts
    /\ cur' = None
    /\ IF attempt_num < MAX_ATTEMPTS
       THEN /\ attempt_num' = attempt_num + 1
            /\ pc' = "generating"
            /\ UNCHANGED <<final_plan, final_result>>
       ELSE /\ pc' = "cleanup"
            /\ final_plan' = None
            /\ final_result' = None
            /\ UNCHANGED attempt_num

\* marathon.py 338-341 and orchestrator.py 107-112: the record is appended
\* and the loop goes to the next attempt, or returns (None, attempts)
NextAttempt(rec) ==
    /\ attempts' = Append(attempts, rec)
    /\ cur' = None
    /\ IF attempt_num < MAX_ATTEMPTS
       THEN /\ attempt_num' = attempt_num + 1
            /\ pc' = "generating"
            /\ UNCHANGED <<final_plan, final_result>>
       ELSE /\ pc' = "cleanup"
            /\ final_plan' = None
            /\ final_result' = None
            /\ UNCHANGED attempt_num

\* AttemptRaised with a `break` after the record: the raised error ends the
\* loop
AttemptRaisedAborts(plan, e) ==
    /\ prev_failure' = Some(e)
    /\ UNCHANGED <<prev_plan, attempt_num>>
    /\ attempts' = Append(attempts, AttemptRecord(attempt_num, plan, None, Some(e)))
    /\ cur' = None
    /\ pc' = "cleanup"
    /\ final_plan' = None
    /\ final_result' = None

\* marathon.py 333-336: except Exception as e
AttemptRaised(plan, e) ==
    /\ prev_failure' = Some(e)
    /\ UNCHANGED prev_plan
    /\ NextAttempt(AttemptRecord(attempt_num, plan, None, Some(e)))

\* marathon.py 301-317: a new attempt record, then MarathonAgent.analyze
Analyze ==
    /\ pc = "generating"
    /\ hist' = [hist EXCEPT !.started = Append(@, attempt_num),
                             !.prompt = Some(BuildPrompt(attempt_num, prev_failure,
                                                         prev_plan))]
    /\ \/ \E changes \in ChangeLists, conf \in ConfidenceChoices :
            /\ cur' = Some(ResponseToPlan(changes, conf, attempt_num, prev_failure))
            /\ pc' = "setup"
            /\ UNCHANGED <<attempt_num, attempts, prev_failure, prev_plan,
                           final_plan, final_result>>
       \/ \E e \in GenErrors : AttemptRaised(None, e)
    /\ UNCHANGED <<test_commands, total_files, repo, sbx, sbxExists, outside,
                   original_hash, integrity, confidence, factors, decision,
                   fnIn, fnOut, clientVars, concVars>>

\* orchestrator.py 90-94: Sandbox.setup, then the plan's commands are
\* replaced by the workflow's
Setup ==
    /\ pc = "setup"
    /\ original_hash' = Some(ComputeDirHash(repo))
    /\ \/ /\ sbx' = CopyTree(repo)
          /\ sbxExists' = TRUE
          /\ cur' = Some(IF test_commands # <<>>
                         THEN [Get(cur) EXCEPT !.verification_steps = test_commands]
                         ELSE Get(cur))
          /\ pc' = "apply"
          /\ UNCHANGED <<attempt_num, attempts, prev_failure, prev_plan,
                         final_plan, final_result>>
       \/ /\ sbx' = EmptyTree
          /\ sbxExists' = FALSE
          /\ AttemptRaised(cur, "copytree failed")
    /\ UNCHANGED <<test_commands, total_files, repo, outside, integrity,
                   confidence, factors, decision, hist, fnIn, fnOut, clientVars, concVars>>

\* orchestrator.py 96: Sandbox.apply_diffs; a write can fail after k changes
ApplyDiffs ==
    /\ pc = "apply"
    /\ LET diffs == Get(cur).files_to_change IN
       \E k \in 0..Len(diffs) :
          LET disk == SandboxApply(Disk(repo, sbx, outside), diffs, k) IN
          /\ repo' = disk.repo
          /\ sbx' = disk.sandbox
          /\ outside' = disk.outside
          /\ IF k = Len(diffs)
             THEN /\ pc' = "verifying"
                  /\ UNCHANGED <<attempt_num, attempts, cur, prev_failure,
                                 prev_plan, final_plan, final_result>>
             ELSE AttemptRaised(cur, "write failed")
    /\ UNCHANGED <<test_commands, total_files, sbxExists, original_hash,
                   integrity, confidence, factors, decision, hist, fnIn, fnOut, clientVars, concVars>>

\* orchestrator.py 99-104 and marathon.py 320-331: verify, then the loop's
\* branch on result.success
VerifyPlan ==
    /\ pc = "verifying"
    /\ LET plan == Get(cur) IN
       \E outs \in [1..Len(plan.verification_steps) -> RunOutcomes] :
          LET result == Verify(plan, outs) IN
          IF result.success
          THEN /\ attempts' = Append(attempts,
                      AttemptRecord(attempt_num, cur, Some(result), None))
               /\ final_plan' = cur
               /\ final_result' = Some(result)
               /\ cur' = None
               /\ pc' = "cleanup"
               /\ UNCHANGED <<attempt_num, prev_failure, prev_plan>>
          ELSE /\ prev_failure' = Some(result.output_log)
               /\ prev_plan' = cur
               /\ NextAttempt(AttemptRecord(attempt_num, cur, Some(result),
                                            Some("Verification failed")))
    /\ hist' = [hist EXCEPT !.verified = Some(sbx)]
    /\ UNCHANGED <<test_commands, total_files, repo, sbx, sbxExists, outside,
                   original_hash, integrity, confidence, factors, decision,
                   fnIn, fnOut, clientVars, concVars>>

\* Sandbox.verify_original_unchanged
VerifyOriginalUnchanged(tree, originalHash) ==
    IF originalHash = None THEN "skipped"
    ELSE IF ComputeDirHash(tree) = Get(originalHash) THEN "ok"
    ELSE "violation"

\* orchestrator.py 130-132: Sandbox.cleanup, with cleanup_sandbox at its
\* default (True); it runs on every way out of the loop
Cleanup ==
    /\ pc = "cleanup"
    /\ integrity' = VerifyOriginalUnchanged(repo, original_hash)
    /\ sbx' = EmptyTree
    /\ sbxExists' = FALSE
    /\ pc' = "scoring"
    /\ UNCHANGED <<attempt_num, attempts, cur, prev_failure, prev_plan,
                   test_commands, total_files, final_plan, final_result, repo,
                   outside, original_hash, confidence, factors, decision,
                   hist, fnIn, fnOut, clientVars, concVars>>

\* Score that rates the last attempt whether or not the loop returned a plan
ScoreLastAttempt ==
    /\ pc = "scoring"
    /\ LET last == IF attempts = <<>> THEN AttemptRecord(0, None, None, None)
                   ELSE attempts[Len(attempts)]
       IN  IF IsSome(last.fix_plan) /\ IsSome(last.verification_result)
           THEN LET c == Calculate(Get(last.fix_plan), Get(last.verification_result),
                                   last.attempt_number, total_files)
                IN  /\ confidence' = c.score
                    /\ factors' = c.factors
           ELSE /\ confidence' = Zero
                /\ factors' = DefaultFactors
    /\ pc' = "deciding"
    /\ UNCHANGED <<attempt_num, attempts, cur, prev_failure, prev_plan,
                   test_commands, total_files, final_plan, final_result, repo,
                   sbx, sbxExists, outside, original_hash, integrity,
                   decision, hist, fnIn, fnOut, clientVars, concVars>>

\* orchestrator.py 143-150
Score ==
    /\ pc = "scoring"
    /\ IF IsSome(final_plan) /\ IsSome(final_result)
       THEN LET c == Calculate(Get(final_plan), Get(final_result),
                               Get(final_plan).attempt_number, total_files)
            IN  /\ confidence' = c.score
                /\ factors' = c.factors
       ELSE /\ confidence' = Zero
            /\ factors' = DefaultFactors
    /\ pc' = "deciding"
    /\ UNCHANGED <<attempt_num, attempts, cur, prev_failure, prev_plan,
                   test_commands, total_files, final_plan, final_result, repo,
                   sbx, sbxExists, outside, original_hash, integrity,
                   decision, hist, fnIn, fnOut, clientVars, concVars>>

\* orchestrator.py 155
DecideStep ==
    /\ pc = "deciding"
    /\ decision' = Some(Decide(confidence, Some(factors), RESOLVE_THRESHOLD))
    /\ pc' = "resolving"
    /\ UNCHANGED <<attempt_num, attempts, cur, prev_failure, prev_plan,
                   test_commands, total_files, final_plan, final_result, repo,
                   sbx, sbxExists, outside, original_hash, integrity,
                   confidence, factors, hist, fnIn, fnOut, clientVars, concVars>>

\* Resolve without the `decision == "resolve"` test of orchestrator.py 164
ResolveAnyDecision ==
    /\ pc = "resolving"
    /\ IF IsSome(final_plan)
       THEN LET diffs == Get(final_plan).files_to_change IN
            \E k \in 0..Len(diffs) :
               LET disk == RepoApply(Disk(repo, sbx, outside), diffs, k) IN
               /\ repo' = disk.repo
               /\ sbx' = disk.sandbox
               /\ outside' = disk.outside
               /\ hist' = [hist EXCEPT !.applied = @ + 1]
       ELSE UNCHANGED <<repo, sbx, outside, hist>>
    /\ pc' = "reporting"
    /\ UNCHANGED <<attempt_num, attempts, cur, prev_failure, prev_plan,
                   test_commands, total_files, final_plan, final_result,
                   sbxExists, original_hash, integrity, confidence, factors,
                   decision, fnIn, fnOut, clientVars, concVars>>

\* orchestrator.py 164-170: _apply_fix_to_repo under try/except; a write can
\* fail after k changes, which is logged and goes no further
Resolve ==
    /\ pc = "resolving"
    /\ IF decision = Some("resolve") /\ IsSome(final_plan)
       THEN LET diffs == Get(final_plan).files_to_change IN
            \E k \in 0..Len(diffs) :
               LET disk == RepoApply(Disk(repo, sbx, outside), diffs, k) IN
               /\ repo' = disk.repo
               /\ sbx' = disk.sandbox
               /\ outside' = disk.outside
               /\ hist' = [hist EXCEPT !.applied = @ + 1]
       ELSE UNCHANGED <<repo, sbx, outside, hist>>
    /\ pc' = "reporting"
    /\ UNCHANGED <<attempt_num, attempts, cur, prev_failure, prev_plan,
                   test_commands, total_files, final_plan, final_result,
                   sbxExists, original_hash, integrity, confidence, factors,
                   decision, fnIn, fnOut, clientVars, concVars>>

\* orchestrator.py 172-193: EscalationReporter.generate_report takes
\* (event, plan, result, score, decision); the call passes confidence=,
\* factors=, attempts= and metrics= keywords, so it raises TypeError
Report ==
    /\ pc = "reporting"
    /\ pc' = "raised"
    /\ UNCHANGED <<attempt_num, attempts, cur, prev_failure, prev_plan,
                   test_commands, total_files, final_plan, final_result, repo,
                   sbx, sbxExists, outside, original_hash, integrity,
                   confidence, factors, decision, hist, fnIn, fnOut, clientVars, concVars>>

-----------------------------------------------------------------------------
(* ResolutionEngine.decide called on its own *)

\* resolve_threshold values an engine is constructed with, in hundredths
ThresholdChoices == {RESOLVE_THRESHOLD, 60, 100}

DecideInputs ==
    {[score |-> Frac(s, 2 * Grid),
      factors |-> [DefaultFactors EXCEPT !.test_pass_ratio = Frac(t, Grid),
                                         !.inverse_blast_radius = Frac(b, Grid)],
      threshold |-> th] :
        s \in 0..(2 * Grid), t \in 0..Grid, b \in 0..Grid, th \in ThresholdChoices}

InitDecide ==
    /\ pc = "decide_call"
    /\ fnIn \in {Some(x) : x \in DecideInputs}
    /\ fnOut = None
    /\ attempt_num = 0
    /\ attempts = <<>>
    /\ cur = None
    /\ prev_failure = None
    /\ prev_plan = None
    /\ test_commands = <<>>
    /\ total_files = DefaultTotalFiles
    /\ final_plan = None
    /\ final_result = None
    /\ repo = InitialTree
    /\ sbx = EmptyTree
    /\ sbxExists = FALSE
    /\ outside = EmptyTree
    /\ original_hash = None
    /\ integrity = "unchecked"
    /\ confidence = Zero
    /\ factors = DefaultFactors
    /\ decision = None
    /\ hist = [repo0 |-> repo, started |-> <<>>, applied |-> 0,
               prompt |-> None, verified |-> None]
    /\ ClientUnused
    /\ ConcUnused

DecideCall ==
    /\ pc = "decide_call"
    /\ LET x == Get(fnIn) IN
       fnOut' = Some(Decide(x.score, Some(x.factors), x.threshold))
    /\ pc' = "decide_done"
    /\ UNCHANGED <<attempt_num, attempts, cur, prev_failure, prev_plan,
                   test_commands, total_files, final_plan, final_result, repo,
                   sbx, sbxExists, outside, original_hash, integrity,
                   confidence, factors, decision, hist, fnIn, clientVars, concVars>>

-----------------------------------------------------------------------------
(* The LLM client called on its own *)

InitClient ==
    /\ pc = "client_idle"
    /\ fnIn = None
    /\ fnOut = None
    /\ attempt_num = 0
    /\ attempts = <<>>
    /\ cur = None
    /\ prev_failure = None
    /\ prev_plan = None
    /\ test_commands = <<>>
    /\ total_files = DefaultTotalFiles
    /\ final_plan = None
    /\ final_result = None
    /\ repo = InitialTree
    /\ sbx = EmptyTree
    /\ sbxExists = FALSE
    /\ outside = EmptyTree
    /\ original_hash = None
    /\ integrity = "unchecked"
    /\ confidence = Zero
    /\ factors = DefaultFactors
    /\ decision = None
    /\ hist = [repo0 |-> repo, started |-> <<>>, applied |-> 0,
               prompt |-> None, verified |-> None]
    /\ ClientUnused
    /\ ConcUnused

\* main.py 256-257: os.environ["NIGHTINGALE_RECORD_MODE"] = "1"
SetRecordEnv ==
    /\ pc = "client_idle"
    /\ ~record_env
    /\ record_env' = TRUE
    /\ UNCHANGED <<pc, fnIn, fnOut, client, cache, call, obs, pipelineVars, concVars>>

\* MarathonAgent.__init__: self.client = get_gemini_client()
NewMarathonAgent ==
    /\ pc = "client_idle"
    /\ client' = GetGeminiClient(client, FALSE)
    /\ UNCHANGED <<pc, fnIn, fnOut, record_env, cache, call, obs, pipelineVars, concVars>>

\* Orchestrator.__init__ 41-44: get_gemini_client(record_mode=...), then
\* MarathonAgent()
NewOrchestrator ==
    /\ pc = "client_idle"
    /\ client' = GetGeminiClient(GetGeminiClient(client, record_env), FALSE)
    /\ obs' = [obs EXCEPT !.recorded = @ \/ record_env]
    /\ UNCHANGED <<pc, fnIn, fnOut, record_env, cache, call, pipelineVars, concVars>>

\* reset_gemini_client
ResetClient ==
    /\ pc = "client_idle"
    /\ client # None
    /\ client' = None
    /\ obs' = [obs EXCEPT !.recorded = FALSE]
    /\ UNCHANGED <<pc, fnIn, fnOut, record_env, cache, call, pipelineVars, concVars>>

\* a caller enters generate(prompt)
GenerateCall ==
    /\ pc = "client_idle"
    /\ client # None
    /\ \E p \in TaskPrompts :
          /\ call' = Some(Frame("generate", p, 0, 0))
          /\ fnIn' = Some(p)
    /\ fnOut' = None
    /\ obs' = [obs EXCEPT !.entry = None, !.requests = 0, !.generates = 0,
                          !.responses = <<>>]
    /\ pc' = "generate"
    /\ UNCHANGED <<record_env, client, cache, pipelineVars, concVars>>

\* a caller enters generate_structured(prompt, response_model), 262-289
GenerateStructuredCall ==
    /\ pc = "client_idle"
    /\ client # None
    /\ \E p \in TaskPrompts :
          /\ call' = Some(Frame("generate_structured", StructuredPrompt(p), 0, 0))
          /\ fnIn' = Some(p)
    /\ fnOut' = None
    /\ obs' = [obs EXCEPT !.entry = None, !.requests = 0, !.generates = 0,
                          !.responses = <<>>]
    /\ pc' = "generate"
    /\ UNCHANGED <<record_env, client, cache, pipelineVars, concVars>>

\* StructuredStep with `attempt < max_validation_retries`: a corrective
\* prompt after the last attempt too
StructuredStepOneMore(c, text) ==
    LET cleaned == Clean(text)
        data == JsonLoads(cleaned)
        valid == IF IsSome(data) THEN ModelValidate(Get(data)) ELSE None
    IN  IF IsSome(valid)
        THEN [pc |-> "client_idle", call |-> c, out |-> Some(Return(Get(valid))),
              cache_enabled |-> TRUE]
        ELSE IF c.attempt < max_validation_retries
        THEN [pc |-> "generate",
              call |-> Frame(c.op,
                             IF IsSome(data)
                             THEN CorrectiveFields(ValidationError(Get(data)))
                             ELSE CorrectiveJson(JsonError(cleaned)),
                             c.attempt + 1, 0),
              out |-> None,
              cache_enabled |-> TRUE]
        ELSE [pc |-> "client_idle", call |-> c,
              out |-> Some(Raise("SchemaValidationError")),
              cache_enabled |-> TRUE]

\* generate_structured 294-338 on the text generate returned: the record,
\* or the next attempt with a corrective prompt (cache.enabled is set to
\* False and back to True while the prompt is built), or SchemaValidationError
StructuredStep(c, text) ==
    LET cleaned == Clean(text)
        data == JsonLoads(cleaned)
        valid == IF IsSome(data) THEN ModelValidate(Get(data)) ELSE None
    IN  IF IsSome(valid)
        THEN [pc |-> "client_idle", call |-> c, out |-> Some(Return(Get(valid))),
              cache_enabled |-> TRUE]
        ELSE IF c.attempt < max_validation_retries - 1
        THEN [pc |-> "generate",
              call |-> Frame(c.op,
                             IF IsSome(data)
                             THEN CorrectiveFields(ValidationError(Get(data)))
                             ELSE CorrectiveJson(JsonError(cleaned)),
                             c.attempt + 1, 0),
              out |-> None,
              cache_enabled |-> TRUE]
        ELSE [pc |-> "client_idle", call |-> c,
              out |-> Some(Raise("SchemaValidationError")),
              cache_enabled |-> TRUE]

\* generate returns text to its caller
GenerateReturns(c, text) ==
    IF c.op = "generate"
    THEN [pc |-> "client_idle", call |-> c, out |-> Some(Return(text)),
          cache_enabled |-> Get(client).cache_enabled]
    ELSE StructuredStep(c, text)

\* generate raises; generate_structured has no handler around the call
GenerateRaises(c, e) ==
    [pc |-> "client_idle", call |-> c, out |-> Some(Raise(e)),
     cache_enabled |-> Get(client).cache_enabled]

\* the caller's state after generate returned or raised
Continue(next) ==
    /\ pc' = next.pc
    /\ call' = Some(next.call)
    /\ fnOut' = next.out
    /\ client' = Some([Get(client) EXCEPT !.cache_enabled = next.cache_enabled])

\* generate 211-220: the cache check and the record-mode test
GenerateEnter ==
    /\ pc = "generate"
    /\ LET c == Get(call)
           cached == CacheGet(cache, Get(client).cache_enabled, c.prompt)
       IN  /\ IF IsSome(cached)
              THEN /\ Continue(GenerateReturns(c, Get(cached)))
                   /\ obs' = [obs EXCEPT !.entry = cached, !.requests = 0,
                                         !.generates = @ + 1,
                                         !.responses = Append(@, Get(cached))]
              ELSE IF Get(client).record_mode
              THEN /\ Continue(GenerateRaises(c, "GeminiClientError"))
                   /\ obs' = [obs EXCEPT !.entry = cached, !.requests = 0,
                                         !.generates = @ + 1]
              ELSE /\ pc' = "request"
                   /\ call' = Some([c EXCEPT !.retry = 1])
                   /\ obs' = [obs EXCEPT !.entry = cached, !.requests = 0,
                                         !.generates = @ + 1]
                   /\ UNCHANGED <<fnOut, client>>
    /\ UNCHANGED <<fnIn, record_env, cache, pipelineVars, concVars>>

\* _retry_with_backoff 164-198 with the rest of generate, 236-250: one
\* network request of attempt call.retry, and what follows from its outcome
NetworkRequest ==
    /\ pc = "request"
    /\ LET c == Get(call) IN
       \E out \in NetOutcomes :
          IF out.ok
          THEN /\ cache' = CachePut(cache, Get(client).cache_enabled,
                                    c.prompt, out.text)
               /\ obs' = [obs EXCEPT !.requests = @ + 1,
                                     !.model = @ \cup {<<c.prompt, out.text>>},
                                     !.responses = Append(@, out.text)]
               /\ Continue(GenerateReturns(c, out.text))
          ELSE /\ obs' = [obs EXCEPT !.requests = @ + 1]
               /\ UNCHANGED cache
               /\ IF IsQuota(out.text) \/ IsTransient(out.text)
                  THEN IF c.retry < MAX_RETRIES
                       THEN /\ call' = Some([c EXCEPT !.retry = @ + 1])
                            /\ UNCHANGED <<pc, fnOut, client>>
                       ELSE Continue(GenerateRaises(c, "QuotaExhaustedError"))
                  ELSE Continue(GenerateRaises(c, out.text))
    /\ UNCHANGED <<fnIn, record_env, pipelineVars, concVars>>

-----------------------------------------------------------------------------

(* The verifier called on its own *)

\* verification commands of a plan
Commands == {"python -m pytest -v", "npm test"}

\* executions of one command among several: it passes, fails or hangs
PlainRuns ==
    {Exited(0, <<Line("passed", 1, 0)>>),
     Exited(1, <<Line("failed", 1, 0)>>),
     TimedOut}

\* plan.verification_steps and what each command does when it is run
VerifyInputs ==
    {[steps |-> <<"python -m pytest -v">>, runs |-> <<Exited(c, out)>>] :
        c \in {0, 1}, out \in SeqsUpTo(OutputLines, MaxLines)}
      \cup UNION {[steps : [1..n -> Commands], runs : [1..n -> PlainRuns]] :
                    n \in 0..MaxCommands}

InitVerify ==
    /\ pc = "verify_call"
    /\ fnIn \in {Some(x) : x \in VerifyInputs}
    /\ fnOut = None
    /\ PipelineUnused
    /\ ClientUnused
    /\ ConcUnused

\* VerificationAgent.verify(plan, sandbox)
VerifyCall ==
    /\ pc = "verify_call"
    /\ LET x == Get(fnIn)
           plan == [files_to_change |-> <<>>, verification_steps |-> x.steps]
       IN  fnOut' = Some(Verify(plan, [i \in 1..Len(x.runs) |->
                                          RunAndParse(x.runs[i])]))
    /\ pc' = "verify_done"
    /\ UNCHANGED <<fnIn, pipelineVars, clientVars, concVars>>

-----------------------------------------------------------------------------

(* The scorer called on its own *)

\* factor values are the multiples of 1/ScoreGrid in [0, 1]
ScoreGrid == 4

GridValues == {Frac(i, ScoreGrid) : i \in 0..ScoreGrid}

\* ConfidenceFactors with every field on the grid
ScoreInputs ==
    [test_pass_ratio : GridValues,
     inverse_blast_radius : GridValues,
     attempt_penalty : GridValues,
     risk_modifier : GridValues,
     self_consistency_score : GridValues]

InitScore ==
    /\ pc = "score_call"
    /\ fnIn \in {Some(f) : f \in ScoreInputs}
    /\ fnOut = None
    /\ PipelineUnused
    /\ ClientUnused
    /\ ConcUnused

\* confidence.py 96-99: factors.weighted_score() and the clamp
ScoreCall ==
    /\ pc = "score_call"
    /\ fnOut' = Some(Clamp(WeightedScore(Get(fnIn))))
    /\ pc' = "score_done"
    /\ UNCHANGED <<fnIn, pipelineVars, clientVars, concVars>>

\* a plan, its verification result and the size of the repository
CalculateInputs ==
    {[plan |-> ResponseToPlan(changes, conf, 1, None),
      outs |-> <<o>>,
      total_files |-> n] :
        changes \in ChangeLists, conf \in GridValues, o \in RunOutcomes,
        n \in TotalFilesChoices}

InitCalculate ==
    /\ pc = "calculate_call"
    /\ fnIn \in {Some(x) : x \in CalculateInputs}
    /\ fnOut = None
    /\ PipelineUnused
    /\ ClientUnused
    /\ ConcUnused

\* ConfidenceScorer.calculate on the same plan and result as the winner of
\* attempt 1, 2, ... and of an attempt behind MAX_ATTEMPTS
CalculateCall ==
    /\ pc = "calculate_call"
    /\ LET x == Get(fnIn)
           result == Verify(x.plan, x.outs)
       IN  fnOut' = Some([k \in 1..(MAX_ATTEMPTS + 1) |->
                             Calculate(x.plan, result, k, x.total_files)])
    /\ pc' = "calculate_done"
    /\ UNCHANGED <<fnIn, pipelineVars, clientVars, concVars>>

-----------------------------------------------------------------------------

(* The workflow parser called on its own *)

\* the longest list of workflow files of the parser's inputs
MaxWorkflows == 2

Workflows ==
    {Unparsable,
     Doc(<<>>),
     Doc(<<Job(FALSE, <<Step(FALSE, <<"pytest">>)>>)>>),
     Doc(<<Job(FALSE, <<Step(FALSE, <<"make build">>)>>)>>),
     Doc(<<Job(FALSE, <<Step(FALSE, <<"make build">>),
                        Step(FALSE, <<"npm test">>),
                        Step(FALSE, <<"pytest">>)>>)>>),
     Doc(<<Job(TRUE, <<Step(FALSE, <<"make build">>), Step(FALSE, <<>>)>>)>>),
     Doc(<<Job(FALSE, <<Step(TRUE, <<"make build">>)>>),
           Job(FALSE, <<Step(FALSE, <<"# run tests", "npm test", "",
                                      "npm test">>)>>)>>)}

Markers == {"pyproject.toml", "setup.py", "requirements.txt", "package.json",
            "go.mod", "Cargo.toml"}

\* the sorted workflow files of a repository and the marker files at its root
ParserInputs ==
    [files : SeqsUpTo(Workflows, MaxWorkflows), markers : SUBSET Markers]

InitParser ==
    /\ pc = "commands_call"
    /\ fnIn \in {Some(x) : x \in ParserInputs}
    /\ fnOut = None
    /\ PipelineUnused
    /\ ClientUnused
    /\ ConcUnused

\* WorkflowParser(repo_path).get_test_commands()
GetTestCommandsCall ==
    /\ pc = "commands_call"
    /\ fnOut' = Some(GetTestCommands(Get(fnIn).files, Get(fnIn).markers))
    /\ pc' = "commands_done"
    /\ UNCHANGED <<fnIn, pipelineVars, clientVars, concVars>>

-----------------------------------------------------------------------------

(* Incident tasks in the executor's threads (api/webhook.py 161-174) *)

\* process_incident_async runs every incident in a thread of the default
\* executor; all of them use the one client of get_gemini_client
Tasks == {"t1", "t2"}

\* generate calls one task makes
MaxCalls == 1

\* gemini.rate_limit of the configuration (gemini_client.py 146; the default
\* of 15 is never reached by the requests of two tasks): a limit they reach
RateLimitChoices == {2}

\* what a network request comes back with
TryOutcomes == {"ok"} \cup NetErrors

\* GeminiClient.__init__ 122-127: the counters; tries and returned log the
\* network requests since minute_start was last set and the generate calls
\* that returned
Counters(maxRpm) ==
    [max_rpm |-> maxRpm, requests_this_minute |-> 0, total_calls |-> 0,
     tries |-> 0, returned |-> 0]

Thread(pos, calls, retry, loaded) ==
    [pc |-> pos, calls |-> calls, retry |-> retry, loaded |-> loaded]

InitRateTasks ==
    /\ pc = "rate_tasks"
    /\ \E r \in RateLimitChoices : shared = Counters(r)
    /\ threads = [t \in Tasks |-> Thread("idle", 0, 0, 0)]
    /\ fnIn = None
    /\ fnOut = None
    /\ PipelineUnused
    /\ ClientUnused

\* a task calls generate for a prompt that is not in the cache
StartGenerate(t) ==
    /\ pc = "rate_tasks"
    /\ threads[t].pc = "idle"
    /\ threads[t].calls < MaxCalls
    /\ threads' = [threads EXCEPT ![t] = Thread("check", @.calls + 1, 1, 0)]
    /\ UNCHANGED <<pc, shared, fnIn, fnOut, pipelineVars, clientVars>>

\* _check_rate_limit 141-147: the window is reset when 60 s have passed,
\* then the counter is compared with the limit
CheckRateLimit(t) ==
    /\ pc = "rate_tasks"
    /\ threads[t].pc = "check"
    /\ \E elapsed \in BOOLEAN :
          LET now == IF elapsed
                     THEN [shared EXCEPT !.requests_this_minute = 0, !.tries = 0]
                     ELSE shared
          IN  /\ shared' = now
              /\ threads' = [threads EXCEPT ![t].pc =
                                IF now.requests_this_minute >= now.max_rpm
                                THEN "sleep" ELSE "load"]
    /\ UNCHANGED <<pc, fnIn, fnOut, pipelineVars, clientVars>>

\* _check_rate_limit 153-155: after time.sleep the window starts again
WakeUp(t) ==
    /\ pc = "rate_tasks"
    /\ threads[t].pc = "sleep"
    /\ shared' = [shared EXCEPT !.requests_this_minute = 0, !.tries = 0]
    /\ threads' = [threads EXCEPT ![t].pc = "load"]
    /\ UNCHANGED <<pc, fnIn, fnOut, pipelineVars, clientVars>>

\* _retry_with_backoff 167, self.requests_this_minute += 1: the read
LoadRequests(t) ==
    /\ pc = "rate_tasks"
    /\ threads[t].pc = "load"
    /\ threads' = [threads EXCEPT ![t].pc = "store",
                                  ![t].loaded = shared.requests_this_minute]
    /\ UNCHANGED <<pc, shared, fnIn, fnOut, pipelineVars, clientVars>>

\* _retry_with_backoff 167, self.requests_this_minute += 1: the write
StoreRequests(t) ==
    /\ pc = "rate_tasks"
    /\ threads[t].pc = "store"
    /\ shared' = [shared EXCEPT !.requests_this_minute = threads[t].loaded + 1]
    /\ threads' = [threads EXCEPT ![t].pc = "request", ![t].loaded = 0]
    /\ UNCHANGED <<pc, fnIn, fnOut, pipelineVars, clientVars>>

\* _retry_with_backoff 168-198: the request, and the retry of a quota or
\* transient error while attempt < MAX_RETRIES
TryRequest(t) ==
    /\ pc = "rate_tasks"
    /\ threads[t].pc = "request"
    /\ shared' = [shared EXCEPT !.tries = @ + 1]
    /\ \E out \in TryOutcomes :
          threads' = [threads EXCEPT ![t] =
              IF out = "ok" THEN [@ EXCEPT !.pc = "load_total"]
              ELSE IF (IsQuota(out) \/ IsTransient(out)) /\ @.retry < MAX_RETRIES
              THEN [@ EXCEPT !.pc = "check", !.retry = @ + 1]
              ELSE [@ EXCEPT !.pc = "idle", !.retry = 0]]
    /\ UNCHANGED <<pc, fnIn, fnOut, pipelineVars, clientVars>>

\* generate 244, self.total_calls += 1: the read
LoadTotal(t) ==
    /\ pc = "rate_tasks"
    /\ threads[t].pc = "load_total"
    /\ threads' = [threads EXCEPT ![t].pc = "store_total",
                                  ![t].loaded = shared.total_calls]
    /\ UNCHANGED <<pc, shared, fnIn, fnOut, pipelineVars, clientVars>>

\* generate 244-250: the write of total_calls, then generate returns
StoreTotal(t) ==
    /\ pc = "rate_tasks"
    /\ threads[t].pc = "store_total"
    /\ shared' = [shared EXCEPT !.total_calls = threads[t].loaded + 1,
                                !.returned = @ + 1]
    /\ threads' = [threads EXCEPT ![t] = Thread("idle", @.calls, 0, 0)]
    /\ UNCHANGED <<pc, fnIn, fnOut, pipelineVars, clientVars>>

\* the bytes of a response text, and of the JSON document of a cache file
ResponseBytes == {<<"a">>, <<"b", "b">>}
EntryBytes(text) == <<"{">> \o text \o <<"}">>

\* write(2) at offset 0 of a file opened without O_APPEND
WriteAtStart(content, data) ==
    data \o SubSeq(content, Len(data) + 1, Len(content))

\* json.loads of a cache file and data["response"]
LoadEntry(content) ==
    IF \E text \in ResponseBytes : content = EntryBytes(text)
    THEN [kind |-> "hit", content |-> content]
    ELSE [kind |-> "JSONDecodeError", content |-> content]

\* a task that calls cache.put(prompt, text), or cache.get(prompt)
Putter(text) ==
    [op |-> "put", pc |-> "open", data |-> EntryBytes(text),
     seen |-> [kind |-> "none", content |-> <<>>]]
Getter ==
    [op |-> "get", pc |-> "exists", data |-> <<>>,
     seen |-> [kind |-> "none", content |-> <<>>]]

\* the file of the prompt's key is absent or holds an entry, and every task
\* is about to put or to get that key
InitCacheTasks ==
    /\ pc = "cache_tasks"
    /\ shared \in {None} \cup {Some(EntryBytes(text)) : text \in ResponseBytes}
    /\ threads \in [Tasks -> {Getter} \cup {Putter(text) : text \in ResponseBytes}]
    /\ fnIn = None
    /\ fnOut = None
    /\ PipelineUnused
    /\ ClientUnused

\* ResponseCache.put 75, path.write_text: open(path, "w") creates or
\* truncates the file
OpenForWrite(t) ==
    /\ pc = "cache_tasks"
    /\ threads[t].pc = "open"
    /\ shared' = Some(<<>>)
    /\ threads' = [threads EXCEPT ![t].pc = "write"]
    /\ UNCHANGED <<pc, fnIn, fnOut, pipelineVars, clientVars>>

\* ResponseCache.put 75-79, path.write_text: the data is written and the
\* file closed
WriteData(t) ==
    /\ pc = "cache_tasks"
    /\ threads[t].pc = "write"
    /\ shared' = Some(WriteAtStart(Get(shared), threads[t].data))
    /\ threads' = [threads EXCEPT ![t].pc = "done"]
    /\ UNCHANGED <<pc, fnIn, fnOut, pipelineVars, clientVars>>

\* ResponseCache.get 64-65 and 69: path.exists()
PathExists(t) ==
    /\ pc = "cache_tasks"
    /\ threads[t].pc = "exists"
    /\ threads' = [threads EXCEPT ![t] =
          IF IsSome(shared) THEN [@ EXCEPT !.pc = "read"]
          ELSE [@ EXCEPT !.pc = "done",
                         !.seen = [kind |-> "miss", content |-> <<>>]]]
    /\ UNCHANGED <<pc, shared, fnIn, fnOut, pipelineVars, clientVars>>

\* ResponseCache.get 66-68: json.loads(path.read_text())
ReadText(t) ==
    /\ pc = "cache_tasks"
    /\ threads[t].pc = "read"
    /\ threads' = [threads EXCEPT ![t].pc = "done",
                                  ![t].seen = LoadEntry(Get(shared))]
    /\ UNCHANGED <<pc, shared, fnIn, fnOut, pipelineVars, clientVars>>

\* one step of one thread
TaskStep ==
    \E t \in Tasks :
        \/ StartGenerate(t)
        \/ CheckRateLimit(t)
        \/ WakeUp(t)
        \/ LoadRequests(t)
        \/ StoreRequests(t)
        \/ TryRequest(t)
        \/ LoadTotal(t)
        \/ StoreTotal(t)
        \/ OpenForWrite(t)
        \/ WriteData(t)
        \/ PathExists(t)
        \/ ReadText(t)

-----------------------------------------------------------------------------

(* process_incident run again on the same incident *)

\* file changes of the model's answers: all of them stay inside the tree
ReplayDiffs ==
    {FileDiff(Path(0, "calc.py"), "modify", "v1"),
     FileDiff(Path(0, "calc.py"), "modify", "v2"),
     FileDiff(Path(0, "test_calc.py"), "delete", "")}

\* files_to_change of an answer
ReplayPlans == {<<>>} \cup {<<d>> : d \in ReplayDiffs}

\* what the test command reads: the content of calc.py and of test_calc.py
TestedContent ==
    {<<c, t>> : c \in {"v0", "v1", "v2"}, t \in {"v0", NoFile}}

\* the model's answer to a prompt: one per attempt number of the
\* previous-attempt-failed block, and one for the prompt without the block
AnswerOf(script, prompt) ==
    IF IsSome(prompt.reflection)
    THEN script[Get(prompt.reflection).attempt]
    ELSE script[1]

\* the test command in the sandbox: its outcome is a function of the files
RunTests(oracle, tree) ==
    IF oracle[<<tree["calc.py"], tree["test_calc.py"]>>]
    THEN [code |-> 0, passed |-> 2, failed |-> 0]
    ELSE [code |-> 1, passed |-> 1, failed |-> 1]

\* ReflectiveReasoningLoop.run from attempt k on, with generate (cache
\* check, record-mode test, model call and cache.put) and verify_callback
\* (setup, apply_diffs, verify) in full; env holds the working tree, the
\* record mode, the model's answers and the test command's behaviour
RECURSIVE LoopFrom(_, _, _, _, _, _)
LoopFrom(env, k, previousFailure, previousPlan, recs, c) ==
    IF k > MAX_ATTEMPTS
    THEN [final_plan |-> None, final_result |-> None, attempts |-> recs,
          cache |-> c]
    ELSE
    LET prompt == BuildPrompt(k, previousFailure, previousPlan)
        cached == CacheGet(c, TRUE, prompt)
    IN  IF cached = None /\ env.record_mode
        THEN LoopFrom(env, k + 1, Some("GeminiClientError"), previousPlan,
                      Append(recs, AttemptRecord(k, None, None,
                                                 Some("GeminiClientError"))),
                      c)
        ELSE
        LET changes == IF IsSome(cached) THEN Get(cached)
                       ELSE AnswerOf(env.script, prompt)
            c2 == IF IsSome(cached) THEN c ELSE CachePut(c, TRUE, prompt, changes)
            plan == [ResponseToPlan(changes, One, k, previousFailure)
                        EXCEPT !.verification_steps = <<"python -m pytest -v">>]
            disk == SandboxApply(Disk(env.tree, CopyTree(env.tree), EmptyTree),
                                 changes, Len(changes))
            result == Verify(plan, <<RunTests(env.oracle, disk.sandbox)>>)
        IN  IF result.success
            THEN [final_plan |-> Some(plan), final_result |-> Some(result),
                  attempts |-> Append(recs, AttemptRecord(k, Some(plan),
                                                          Some(result), None)),
                  cache |-> c2]
            ELSE LoopFrom(env, k + 1, Some(result.output_log), Some(plan),
                          Append(recs, AttemptRecord(k, Some(plan), Some(result),
                                                     Some("Verification failed"))),
                          c2)

\* Orchestrator.process_incident up to the call of generate_report: the
\* loop, the score, the decision and the write of a resolve; `report` is
\* what the report is built from
ProcessIncident(env, c) ==
    LET loop == LoopFrom(env, 1, None, None, <<>>, c)
        scored == IF IsSome(loop.final_plan)
                  THEN Calculate(Get(loop.final_plan), Get(loop.final_result),
                                 Get(loop.final_plan).attempt_number,
                                 DefaultTotalFiles)
                  ELSE [score |-> Zero, factors |-> DefaultFactors]
        verdict == Decide(scored.score, Some(scored.factors), RESOLVE_THRESHOLD)
        changes == IF IsSome(loop.final_plan)
                   THEN Get(loop.final_plan).files_to_change ELSE <<>>
    IN  [decision |-> verdict,
         attempts |-> Len(loop.attempts),
         report |-> [fix_plan |-> loop.final_plan, confidence |-> scored.score,
                     factors |-> scored.factors],
         tree |-> IF verdict = "resolve"
                  THEN RepoApply(Disk(env.tree, EmptyTree, EmptyTree), changes,
                                 Len(changes)).repo
                  ELSE env.tree,
         cache |-> loop.cache]

Environment(x, recordMode, tree) ==
    [script |-> x.script, oracle |-> x.oracle, record_mode |-> recordMode,
     tree |-> tree]

\* what a run leaves for its caller
Outcome(run) ==
    [decision |-> run.decision, attempts |-> run.attempts, report |-> run.report]

ReplayInputs ==
    [script : [1..MAX_ATTEMPTS -> ReplayPlans],
     oracle : [TestedContent -> BOOLEAN]]

\* the files of cache_dir and the outcomes of the runs so far
Runs(c, outcomes) == [cache |-> c, outcomes |-> outcomes]

InitReplay ==
    /\ pc = "live_run"
    /\ fnIn \in {Some(x) : x \in ReplayInputs}
    /\ fnOut = Some(Runs(EmptyCache, <<>>))
    /\ PipelineUnused
    /\ ClientUnused
    /\ ConcUnused

\* a complete run of process_incident with the live client and an empty
\* cache
LiveRun ==
    /\ pc = "live_run"
    /\ LET run == ProcessIncident(Environment(Get(fnIn), FALSE, repo),
                                  Get(fnOut).cache)
       IN  /\ repo' = run.tree
           /\ fnOut' = Some(Runs(run.cache,
                                 Append(Get(fnOut).outcomes, Outcome(run))))
    /\ pc' = "replay_first"
    /\ UNCHANGED <<attempt_num, attempts, cur, prev_failure, prev_plan,
                   test_commands, total_files, final_plan, final_result, sbx,
                   sbxExists, outside, original_hash, integrity, confidence,
                   factors, decision, hist, fnIn, clientVars, concVars>>

\* a run of process_incident in record mode on the cache and the working
\* tree the runs before it left
ReplayRun ==
    /\ pc \in {"replay_first", "replay_second"}
    /\ LET run == ProcessIncident(Environment(Get(fnIn), TRUE, repo),
                                  Get(fnOut).cache)
       IN  /\ repo' = run.tree
           /\ fnOut' = Some(Runs(run.cache,
                                 Append(Get(fnOut).outcomes, Outcome(run))))
    /\ pc' = IF pc = "replay_first" THEN "replay_second" ELSE "replay_done"
    /\ UNCHANGED <<attempt_num, attempts, cur, prev_failure, prev_plan,
                   test_commands, total_files, final_plan, final_result, sbx,
                   sbxExists, outside, original_hash, integrity, confidence,
                   factors, decision, hist, fnIn, clientVars, concVars>>

-----------------------------------------------------------------------------

(* One task's requests against the clock (gemini_client.py 140-198) *)

\* _check_rate_limit 142: the length of a window, in seconds
WINDOW == 60

\* config.get("gemini.rate_limit", 15)
DefaultRateLimit == 15

\* values of gemini.rate_limit in the configuration
SingleRateLimits == {1, 2, DefaultRateLimit}

\* seconds that pass between two tries of the task (backoff sleeps, the time
\* a request takes, the time between two generate calls)
Elapses == {0, 1, 30, 59, WINDOW}

\* _check_rate_limit with `>` for `>=` in the comparison with the limit
CheckRateLimitLate(c) ==
    LET rolled == c.age >= WINDOW
        requests == IF rolled THEN 0 ELSE c.requests_this_minute
        age == IF rolled THEN 0 ELSE c.age
    IN  IF requests > c.max_rpm
        THEN [requests_this_minute |-> 0, age |-> 0, rolled |-> rolled,
              slept |-> TRUE, sleep_time |-> WINDOW - age + 1]
        ELSE [requests_this_minute |-> requests, age |-> age, rolled |-> rolled,
              slept |-> FALSE, sleep_time |-> 0]

\* _check_rate_limit 140-155, for a client whose window began c.age seconds
\* ago: the counter and the window's age it leaves, whether the window was
\* restarted on entry, and whether and how long it slept
CheckRateLimitTimed(c) ==
    LET rolled == c.age >= WINDOW
        requests == IF rolled THEN 0 ELSE c.requests_this_minute
        age == IF rolled THEN 0 ELSE c.age
    IN  IF requests >= c.max_rpm
        THEN [requests_this_minute |-> 0, age |-> 0, rolled |-> rolled,
              slept |-> TRUE, sleep_time |-> WINDOW - age + 1]
        ELSE [requests_this_minute |-> requests, age |-> age, rolled |-> rolled,
              slept |-> FALSE, sleep_time |-> 0]

\* GeminiClient.__init__ 122-123 and the task's position in
\* _retry_with_backoff.  tries counts the requests sent since minute_start
\* was last assigned; rolled, slept and sent_at describe the last request:
\* sent_at is the age, when it was sent, of the window in which it arrived
InitRateSingle ==
    /\ pc = "rate_single"
    /\ \E r \in SingleRateLimits :
          shared = [max_rpm |-> r, requests_this_minute |-> 0, age |-> 0,
                    tries |-> 0, rolled |-> FALSE, slept |-> FALSE, sent_at |-> 0]
    /\ threads = [retry |-> 1]
    /\ fnIn = None
    /\ fnOut = None
    /\ PipelineUnused
    /\ ClientUnused

\* _retry_with_backoff 164-198: one pass of the loop, d seconds after the
\* pass before it: the rate limit check, the increment, the request and the
\* branch on what came back
SendRequest ==
    /\ pc = "rate_single"
    /\ \E d \in Elapses, out \in TryOutcomes :
          LET arrived == Min(shared.age + d, WINDOW)
              checked == CheckRateLimitTimed([shared EXCEPT !.age = arrived])
              restarted == checked.rolled \/ checked.slept
          IN  /\ shared' = [max_rpm |-> shared.max_rpm,
                            requests_this_minute |-> checked.requests_this_minute + 1,
                            age |-> checked.age,
                            tries |-> (IF restarted THEN 0 ELSE shared.tries) + 1,
                            rolled |-> checked.rolled,
                            slept |-> checked.slept,
                            sent_at |-> (IF checked.rolled THEN 0 ELSE arrived)
                                          + checked.sleep_time]
              /\ threads' = [retry |->
                                IF out # "ok" /\ (IsQuota(out) \/ IsTransient(out))
                                   /\ threads.retry < MAX_RETRIES
                                THEN threads.retry + 1 ELSE 1]
    /\ UNCHANGED <<pc, fnIn, fnOut, pipelineVars, clientVars>>

-----------------------------------------------------------------------------

(* The sandbox under a configured base directory (sandbox.py 16-72, 129-136) *)

\* the directory names _compute_dir_hash skips (sandbox.py 19); the names of
\* ignore_patterns in setup (67-69) are the same
IgnoredDirs == {".git", ".sandbox", "__pycache__", ".nightingale_cache"}

\* values of sandbox_dir in the configuration; ".sandbox" is the default
SandboxDirs == {".sandbox", "work"}

\* The working tree of a Sandbox object: its files, whether the base
\* directory <repo>/<base> exists, and the files of <repo>/<base>/<id>
\* (None: no such directory).  nested: the sandbox holds copies of the base.
WorkDir(base, files, baseExists, sandbox, nested) ==
    [base |-> base, files |-> files, base_exists |-> baseExists,
     sandbox |-> sandbox, nested |-> nested]

\* _compute_dir_hash(original_repo_path): os.walk prunes the directories of
\* the ignore set and no other, so the files below another base are hashed
\* after the tree's own
DirHash(dir) ==
    [top |-> ComputeDirHash(dir.files),
     below |-> IF dir.base \in IgnoredDirs \/ dir.sandbox = None
               THEN <<>>
               ELSE ComputeDirHash(Get(dir.sandbox))]

\* Sandbox.setup 55-72 on the state s of a Sandbox object and its tree.
\* copytree lists the entries of the tree before it creates the destination:
\* a base directory that exists and is not in the ignore patterns is copied
\* into the sandbox, which lies inside it, level below level until the path
\* is too long, and copytree raises after copying the other entries.
SandboxSetup(s) ==
    LET removed == [s.dir EXCEPT !.sandbox = None, !.nested = FALSE]
        selfCopy == removed.base_exists /\ removed.base \notin IgnoredDirs
    IN  [dir |-> [removed EXCEPT !.base_exists = TRUE,
                                 !.sandbox = Some(CopyTree(removed.files)),
                                 !.nested = selfCopy],
         original_hash |-> Some(DirHash(s.dir)),
         integrity |-> s.integrity,
         raised |-> selfCopy]

\* Sandbox.cleanup 129-136: verify_original_unchanged, then rmtree of the
\* sandbox path (the base directory stays)
SandboxCleanup(s) ==
    [dir |-> [s.dir EXCEPT !.sandbox = None, !.nested = FALSE],
     original_hash |-> s.original_hash,
     integrity |-> IF s.original_hash = None THEN "skipped"
                   ELSE IF DirHash(s.dir) = Get(s.original_hash) THEN "ok"
                   ELSE "violation",
     raised |-> FALSE]

\* Sandbox.__init__ 46-51, in a tree where the base directory exists (main.py
\* 110-112 creates it at start-up) or not
InitSandboxDir ==
    /\ pc = "sandbox_new"
    /\ \E base \in SandboxDirs, files \in InitialTrees, exists \in BOOLEAN :
          fnOut = Some([dir |-> WorkDir(base, files, exists, None, FALSE),
                        original_hash |-> None,
                        integrity |-> "unchecked",
                        raised |-> FALSE])
    /\ fnIn = None
    /\ PipelineUnused
    /\ ClientUnused
    /\ ConcUnused

\* verify_callback calls sandbox.setup() once per attempt
SetupCall ==
    /\ pc \in {"sandbox_new", "sandbox_set"}
    /\ fnOut' = Some(SandboxSetup(Get(fnOut)))
    /\ pc' = "sandbox_set"
    /\ UNCHANGED <<fnIn, pipelineVars, clientVars, concVars>>

\* process_incident calls sandbox.cleanup() after the loop
CleanupCall ==
    /\ pc \in {"sandbox_new", "sandbox_set"}
    /\ fnOut' = Some(SandboxCleanup(Get(fnOut)))
    /\ pc' = "sandbox_clean"
    /\ UNCHANGED <<fnIn, pipelineVars, clientVars, concVars>>

-----------------------------------------------------------------------------

(* Structured calls of two incidents on one cache (gemini_client.py 252-340) *)

\* the prompts MarathonAgent builds for two incidents
IncidentPrompts == <<Prompt("task", "incident"), Prompt("task", "incident-2")>>

\* generate 211-250 for the frame's prompt, with a network that answers at
\* the first try, then generate_structured 294-338 on what it returned, up to
\* the record or the error generate_structured ends with.  answers[k] is the
\* text the model gives at call k; model logs <<prompt, text>> of the model's
\* answers, hit is whether the last generate was served from the cache
RECURSIVE StructuredLoop(_, _, _, _)
StructuredLoop(c, frame, answers, model) ==
    LET cached == CacheGet(c, TRUE, frame.prompt)
        text == IF IsSome(cached) THEN Get(cached) ELSE answers[frame.attempt + 1]
        written == IF IsSome(cached) THEN c ELSE CachePut(c, TRUE, frame.prompt, text)
        logged == IF IsSome(cached) THEN model ELSE model \cup {<<frame.prompt, text>>}
        next == StructuredStep(frame, text)
    IN  IF next.pc = "generate"
        THEN StructuredLoop(written, next.call, answers, logged)
        ELSE [out |-> Get(next.out), prompt |-> frame.prompt, text |-> text,
              hit |-> IsSome(cached), model |-> logged, cache |-> written]

\* client.generate_structured(prompt, GeminiFixResponse) on the cache c
GenerateStructured(c, prompt, answers) ==
    StructuredLoop(c, Frame("generate_structured", StructuredPrompt(prompt), 0, 0),
                   answers, {})

\* what the model answers at each generate call of each incident
StructuredInputs ==
    [1..Len(IncidentPrompts) -> [1..max_validation_retries -> Texts]]

InitStructured ==
    /\ pc = "structured_first"
    /\ fnIn \in {Some(x) : x \in StructuredInputs}
    /\ fnOut = Some(<<>>)
    /\ PipelineUnused
    /\ ClientUnused
    /\ ConcUnused

\* MarathonAgent.analyze of the next incident: generate_structured on the
\* cache the calls before it left
StructuredRun ==
    /\ pc \in {"structured_first", "structured_second"}
    /\ LET done == Get(fnOut)
           k == Len(done) + 1
           c == IF k = 1 THEN EmptyCache ELSE done[k - 1].cache
       IN  fnOut' = Some(Append(done,
                        GenerateStructured(c, IncidentPrompts[k], Get(fnIn)[k])))
    /\ pc' = IF pc = "structured_first" THEN "structured_second"
             ELSE "structured_done"
    /\ UNCHANGED <<fnIn, pipelineVars, clientVars, concVars>>

-----------------------------------------------------------------------------

(* A generate call beside another task's generate_structured *)

\* the "response" of the cache file of the prompt the second task asks for
CachedText == "{plan}"

\* The first task is in generate_structured behind a response that failed to
\* parse or to validate (309, 326); the second task enters generate for a
\* prompt whose entry is in the cache.  Both use the one client and its cache.
InitFlagTasks ==
    /\ pc = "flag_tasks"
    /\ \E recordMode \in BOOLEAN :
          shared = [enabled |-> TRUE, record_mode |-> recordMode,
                    entry |-> CachedText]
    /\ threads = [structured |-> "failed", generate |-> "enter", out |-> None]
    /\ fnIn = None
    /\ fnOut = None
    /\ PipelineUnused
    /\ ClientUnused

\* generate_structured 311 and 328: self.cache.enabled = False
DisableCache ==
    /\ pc = "flag_tasks"
    /\ threads.structured = "failed"
    /\ shared' = [shared EXCEPT !.enabled = FALSE]
    /\ threads' = [threads EXCEPT !.structured = "building"]
    /\ UNCHANGED <<pc, fnIn, fnOut, pipelineVars, clientVars>>

\* generate_structured 312-317 and 329-335: the corrective prompt is built
\* and self.cache.enabled = True
EnableCache ==
    /\ pc = "flag_tasks"
    /\ threads.structured = "building"
    /\ shared' = [shared EXCEPT !.enabled = TRUE]
    /\ threads' = [threads EXCEPT !.structured = "retrying"]
    /\ UNCHANGED <<pc, fnIn, fnOut, pipelineVars, clientVars>>

\* generate 211-220: cache.get reads the flag and the file; without an entry
\* record mode raises
CacheLookup ==
    /\ pc = "flag_tasks"
    /\ threads.generate = "enter"
    /\ LET cached == IF shared.enabled THEN Some(shared.entry) ELSE None IN
       threads' = IF IsSome(cached)
                  THEN [threads EXCEPT !.generate = "done",
                                       !.out = Some(Return(Get(cached)))]
                  ELSE IF shared.record_mode
                  THEN [threads EXCEPT !.generate = "done",
                                       !.out = Some(Raise("GeminiClientError"))]
                  ELSE [threads EXCEPT !.generate = "request"]
    /\ UNCHANGED <<pc, shared, fnIn, fnOut, pipelineVars, clientVars>>

\* generate 236-250: the model answers, cache.put reads the flag and writes
\* the file, generate returns the model's text
ModelAnswers ==
    /\ pc = "flag_tasks"
    /\ threads.generate = "request"
    /\ \E text \in Texts :
          /\ shared' = IF shared.enabled THEN [shared EXCEPT !.entry = text]
                       ELSE shared
          /\ threads' = [threads EXCEPT !.generate = "done",
                                        !.out = Some(Return(text))]
    /\ UNCHANGED <<pc, fnIn, fnOut, pipelineVars, clientVars>>

-----------------------------------------------------------------------------

(* The GitHub webhook (api/webhook.py 43-250) *)

\* The value of an X-Hub-Signature-256 header: the empty string, or
\* "sha256=" and the hex HMAC-SHA256 of a payload under a key (the digest is
\* taken as injective)
EmptyHeader == [kind |-> "empty", key |-> "", payload |-> <<>>]
Signature(key, payload) == [kind |-> "sha256", key |-> key, payload |-> payload]

\* verify_github_signature
VerifyGithubSignature(payload, signature, secret) ==
    IF signature = EmptyHeader \/ secret = "" THEN TRUE
    ELSE Signature(secret, payload) = signature

\* a request body: whether it is JSON, and the conclusion of its run
Body(json, conclusion) == [json |-> json, conclusion |-> conclusion]

\* parse_github_workflow_event: the incident of a failed run, or None
ParseGithubWorkflowEvent(payload) ==
    IF payload.conclusion # "failure" THEN None
    ELSE Some([id |-> "gh-1", type |-> "pipeline_failure"])

\* parse_github_check_run_event
ParseGithubCheckRunEvent(payload) ==
    IF payload.conclusion \notin {"failure", "timed_out"} THEN None
    ELSE Some([id |-> "gh-check-1", type |-> "test_failure"])

\* the response of the endpoint and the incident it queued, if any
Response(code, status, queued) == [code |-> code, status |-> status, queued |-> queued]

\* github_webhook: req holds the body, the two headers (None when absent)
\* and the configured webhook.secret ("" when none is configured)
GithubWebhook(req) ==
    IF req.secret # ""
       /\ ~VerifyGithubSignature(req.body,
                                 IF IsSome(req.signature) THEN Get(req.signature)
                                 ELSE EmptyHeader,
                                 req.secret)
    THEN Response(401, "Invalid signature", None)
    ELSE IF ~req.body.json THEN Response(400, "Invalid JSON payload", None)
    ELSE IF req.event \notin {Some("workflow_run"), Some("check_run")}
    THEN Response(200, IF req.event = Some("ping") THEN "ok" ELSE "ignored", None)
    ELSE LET event == IF req.event = Some("workflow_run")
                      THEN ParseGithubWorkflowEvent(req.body)
                      ELSE ParseGithubCheckRunEvent(req.body)
         IN  IF event = None THEN Response(200, "ignored", None)
             ELSE Response(200, "accepted", event)

\* the configured secret and the key of a sender that does not know it
WebhookSecret == "s3cret"
Keys == {WebhookSecret, "guess"}

Bodies ==
    {Body(FALSE, "none")}
        \cup {Body(TRUE, c) : c \in {"failure", "timed_out", "success"}}

WebhookRequests ==
    [body : Bodies,
     signature : {None, Some(EmptyHeader)}
                    \cup {Some(Signature(k, b)) : k \in Keys, b \in Bodies},
     event : {None, Some("workflow_run"), Some("check_run"), Some("ping")},
     secret : {"", WebhookSecret}]

InitWebhook ==
    /\ pc = "webhook_call"
    /\ fnIn \in {Some(req) : req \in WebhookRequests}
    /\ fnOut = None
    /\ PipelineUnused
    /\ ClientUnused
    /\ ConcUnused

\* POST /webhook/github
GithubWebhookCall ==
    /\ pc = "webhook_call"
    /\ fnOut' = Some(GithubWebhook(Get(fnIn)))
    /\ pc' = "webhook_done"
    /\ UNCHANGED <<fnIn, pipelineVars, clientVars, concVars>>

-----------------------------------------------------------------------------

Init == InitIncident \/ InitDecide \/ InitClient \/ InitVerify
          \/ InitScore \/ InitCalculate \/ InitParser
          \/ InitRateTasks \/ InitCacheTasks \/ InitReplay
          \/ InitRateSingle \/ InitSandboxDir \/ InitStructured
          \/ InitFlagTasks \/ InitWebhook

Next ==
    \/ DecideCall
    \/ VerifyCall
    \/ ScoreCall
    \/ CalculateCall
    \/ GetTestCommandsCall
    \/ TaskStep
    \/ SendRequest
    \/ StructuredRun
    \/ GithubWebhookCall
    \/ DisableCache
    \/ EnableCache
    \/ CacheLookup
    \/ ModelAnswers
    \/ SetupCall
    \/ CleanupCall
    \/ LiveRun
    \/ ReplayRun
    \/ SetRecordEnv
    \/ NewMarathonAgent
    \/ NewOrchestrator
    \/ ResetClient
    \/ GenerateCall
    \/ GenerateStructuredCall
    \/ GenerateEnter
    \/ NetworkRequest
    \/ LoadContext
    \/ Analyze
    \/ Setup
    \/ ApplyDiffs
    \/ VerifyPlan
    \/ Cleanup
    \/ Score
    \/ DecideStep
    \/ Resolve
    \/ Report

Spec == Init /\ [][Next]_vars

-----------------------------------------------------------------------------
(* The loops of one incident, request by request *)

\* _retry_with_backoff with one try more than MAX_RETRIES
MayRetryOnceMore(retry) == retry <= MAX_RETRIES

\* _retry_with_backoff 181: attempt < self.MAX_RETRIES
MayRetry(retry) == retry < MAX_RETRIES

\* The position of process_incident in its loops: attempt is the loop
\* variable of ReflectiveReasoningLoop.run, validation that of
\* generate_structured, retry that of _retry_with_backoff; started, setups,
\* generates and requests count the attempts begun, the calls of
\* Sandbox.setup, of generate and of the network
Loops(attempt, validation, retry, started, setups, generates, requests) ==
    [attempt |-> attempt, validation |-> validation, retry |-> retry,
     started |-> started, setups |-> setups, generates |-> generates,
     requests |-> requests]

InitLoops ==
    /\ pc = "incident"
    /\ shared = Loops(0, 0, 0, 0, 0, 0, 0)
    /\ threads = <<>>
    /\ fnIn = None
    /\ fnOut = None
    /\ PipelineUnused
    /\ ClientUnused

\* orchestrator.py 62-87: the objects of the incident; git.Repo and
\* get_test_commands can raise
BeginIncident ==
    /\ pc = "incident"
    /\ pc' \in {"loop", "over"}
    /\ UNCHANGED <<shared, threads, fnIn, fnOut, pipelineVars, clientVars>>

\* marathon.py 301-304 and 340-341: the next attempt, or the loop is exhausted
BeginAttempt ==
    /\ pc = "loop"
    /\ IF shared.attempt < MAX_ATTEMPTS
       THEN /\ shared' = [shared EXCEPT !.attempt = @ + 1, !.started = @ + 1,
                                        !.validation = 0, !.retry = 0]
            /\ pc' = "generate"
       ELSE /\ pc' = "finally"
            /\ UNCHANGED shared
    /\ UNCHANGED <<threads, fnIn, fnOut, pipelineVars, clientVars>>

\* generate_structured 294-338 on a text generate returned: the record goes
\* to verify_callback, a text that does not parse or validate to the next
\* generate or, at the last validation attempt, to SchemaValidationError,
\* which the loop's except clause records
AfterText(s, valid) ==
    IF valid THEN [pc |-> "verify", loops |-> s]
    ELSE IF s.validation < max_validation_retries - 1
    THEN [pc |-> "generate", loops |-> [s EXCEPT !.validation = @ + 1]]
    ELSE [pc |-> "loop", loops |-> s]

\* generate 211-220: a cache hit returns the text, record mode raises on a
\* miss, otherwise the network is asked
EnterGenerate ==
    /\ pc = "generate"
    /\ LET s == [shared EXCEPT !.generates = @ + 1] IN
       \/ \E valid \in BOOLEAN :
             /\ pc' = AfterText(s, valid).pc
             /\ shared' = AfterText(s, valid).loops
       \/ /\ pc' = "loop"
          /\ shared' = s
       \/ /\ pc' = "request"
          /\ shared' = [s EXCEPT !.retry = 1]
    /\ UNCHANGED <<threads, fnIn, fnOut, pipelineVars, clientVars>>

\* _retry_with_backoff 164-198: one try; the call returns a text or fails
SendTry ==
    /\ pc = "request"
    /\ LET s == [shared EXCEPT !.requests = @ + 1] IN
       \E out \in TryOutcomes :
          IF out = "ok"
          THEN \E valid \in BOOLEAN :
                  /\ pc' = AfterText(s, valid).pc
                  /\ shared' = AfterText(s, valid).loops
          ELSE IF (IsQuota(out) \/ IsTransient(out)) /\ MayRetry(s.retry)
          THEN /\ pc' = "request"
               /\ shared' = [s EXCEPT !.retry = @ + 1]
          ELSE /\ pc' = "loop"
               /\ shared' = s
    /\ UNCHANGED <<threads, fnIn, fnOut, pipelineVars, clientVars>>

\* orchestrator.py 89-104 and marathon.py 320-337: setup, apply_diffs and the
\* commands, each of which returns or times out; success leaves the loop
VerifyCallback ==
    /\ pc = "verify"
    /\ shared' = [shared EXCEPT !.setups = @ + 1]
    /\ pc' \in {"loop", "finally"}
    /\ UNCHANGED <<threads, fnIn, fnOut, pipelineVars, clientVars>>

\* orchestrator.py 130-132: the finally block
FinallyCleanup ==
    /\ pc = "finally"
    /\ pc' = "scored"
    /\ UNCHANGED <<shared, threads, fnIn, fnOut, pipelineVars, clientVars>>

\* orchestrator.py 134-206: metrics, score, decision, resolve and report;
\* process_incident returns or raises
FinishIncident ==
    /\ pc = "scored"
    /\ pc' = "over"
    /\ UNCHANGED <<shared, threads, fnIn, fnOut, pipelineVars, clientVars>>

NextLoops ==
    \/ BeginIncident
    \/ BeginAttempt
    \/ EnterGenerate
    \/ SendTry
    \/ VerifyCallback
    \/ FinallyCleanup
    \/ FinishIncident

\* every call returns or fails and every command returns or times out: the
\* thread of the incident takes its next step
LiveSpec == InitLoops /\ [][NextLoops]_vars /\ WF_vars(NextLoops)

-----------------------------------------------------------------------------

(* Vocabulary of the properties *)

\* process_incident is over (it returned or an error left it)
Finished == pc \in {"returned", "raised"}

\* the reflective loop has returned to process_incident
LoopOver == pc \in {"cleanup", "scoring", "deciding", "resolving", "reporting"}
            \/ (Finished /\ IsSome(decision))

\* an attempt is between its plan and its record
MidAttempt == pc \in {"setup", "apply", "verifying"}

Succeeded(rec) ==
    IsSome(rec.verification_result) /\ Get(rec.verification_result).success

\* the non-ignored content of two trees is the same
SameContent(t1, t2) == \A n \in FileNames : Ignored(n) \/ t1[n] = t2[n]

\* the names of the working tree a plan declares
DeclaredNames(plan) ==
    {plan.files_to_change[i].file_path.name : i \in
        {j \in 1..Len(plan.files_to_change) : plan.files_to_change[j].file_path.up = 0}}

Escapes(plan) ==
    \E i \in 1..Len(plan.files_to_change) :
        ResolveInSandbox(plan.files_to_change[i].file_path) # "sandbox"

-----------------------------------------------------------------------------
(* Properties *)

\* C1: a run that ends with decision escalate leaves the non-ignored content
\* of the working tree as it was at the start
C1_EscalateLeavesTree ==
    (Finished /\ decision = Some("escalate")) => SameContent(repo, hist.repo0)

\* C2: after a run that ends with decision resolve the working tree differs
\* from the start only at paths the winning plan declares, every declared
\* modify/add path holds that change's content and every declared delete
\* path is absent
C2_ResolveWritesPlan ==
    (Finished /\ decision = Some("resolve")) =>
        LET plan == Get(final_plan) IN
        /\ \A n \in FileNames :
              repo[n] # hist.repo0[n] => n \in DeclaredNames(plan)
        /\ \A i \in 1..Len(plan.files_to_change) :
              LET d == plan.files_to_change[i] IN
              d.file_path.up = 0 =>
                 repo[d.file_path.name] =
                    (IF d.change_type = "delete" THEN NoFile ELSE d.diff_content)

\* C3: decide returns resolve exactly when the score reaches the threshold
\* and test_pass_ratio >= 0.5 and inverse_blast_radius >= 0.3, and escalate
\* otherwise; so a resolve decision of process_incident has a score at or
\* above the threshold and no override tripped
C3_DecideRule ==
    /\ pc = "decide_done" =>
          LET x == Get(fnIn)
              ok == /\ x.score[1] * 100 >= x.threshold * x.score[2]
                    /\ 2 * x.factors.test_pass_ratio[1] >= x.factors.test_pass_ratio[2]
                    /\ 10 * x.factors.inverse_blast_radius[1]
                          >= 3 * x.factors.inverse_blast_radius[2]
          IN  fnOut = Some(IF ok THEN "resolve" ELSE "escalate")
    /\ decision = Some("resolve") =>
          /\ confidence[1] * 100 >= RESOLVE_THRESHOLD * confidence[2]
          /\ 2 * factors.test_pass_ratio[1] >= factors.test_pass_ratio[2]
          /\ 10 * factors.inverse_blast_radius[1] >= 3 * factors.inverse_blast_radius[2]

\* a score exactly at the threshold is resolved
C3_Witness ==
    /\ pc = "decide_done"
    /\ Get(fnIn).threshold = RESOLVE_THRESHOLD
    /\ Get(fnIn).score = Frac(RESOLVE_THRESHOLD, 100)
    /\ fnOut = Some("resolve")

\* C4: _apply_fix_to_repo is invoked at most once per run, and only with
\* decision resolve and a verified winning plan; with any other decision
\* the resolution step leaves the working tree alone
C4_ApplyAtMostOnce ==
    /\ hist.applied <= 1
    /\ hist.applied = 1 =>
          /\ decision = Some("resolve")
          /\ IsSome(final_plan)
          /\ attempts # <<>>
          /\ Succeeded(attempts[Len(attempts)])
          /\ attempts[Len(attempts)].fix_plan = final_plan
    /\ (pc \in {"reporting", "raised"} /\ decision = Some("escalate")) =>
          hist.applied = 0

C4_Witness ==
    Finished /\ decision = Some("resolve") /\ hist.applied = 1

\* C5: attempts start in the order 1, 2, ..., never more than MAX_ATTEMPTS;
\* a plan is verified only after the same attempt generated it; no attempt
\* starts after a successful verification, whose plan is the one returned;
\* without a success the loop returns no plan after attempt MAX_ATTEMPTS
C5_LoopOrder ==
    /\ Len(hist.started) <= MAX_ATTEMPTS
    /\ \A i \in 1..Len(hist.started) : hist.started[i] = i
    /\ MidAttempt =>
          /\ IsSome(cur)
          /\ Get(cur).attempt_number = attempt_num
          /\ Len(hist.started) = attempt_num
    /\ \A i \in 1..Len(attempts) :
          Succeeded(attempts[i]) =>
             /\ i = Len(attempts)
             /\ Len(hist.started) = i
             /\ LoopOver
             /\ final_plan = attempts[i].fix_plan
    /\ (LoopOver /\ ~(\E i \in 1..Len(attempts) : Succeeded(attempts[i]))) =>
          /\ final_plan = None
          /\ Len(hist.started) = MAX_ATTEMPTS

\* the loop stopped at a success of attempt 2
C5_Witness ==
    /\ LoopOver
    /\ Len(attempts) = 2
    /\ ~Succeeded(attempts[1])
    /\ Succeeded(attempts[2])
    /\ final_plan = attempts[2].fix_plan

\* C6: once the generation of attempt K raised QuotaExhausted no attempt
\* K+1 is started, and the run ends with score 0 and decision escalate
C6_QuotaAborts ==
    \A k \in 1..Len(attempts) :
        attempts[k].failure_reason = Some("QuotaExhaustedError") =>
           /\ Len(hist.started) <= k
           /\ Len(attempts) = k
           /\ confidence = Zero
           /\ decision # Some("resolve")

\* C7: when no verification succeeded the score is 0 and the decision is
\* escalate; a non-zero score needs the last record to hold a successful
\* verification of the returned plan
C7_NoSuccessScoresZero ==
    /\ ~(\E i \in 1..Len(attempts) : Succeeded(attempts[i])) =>
          /\ confidence = Zero
          /\ decision \in {None, Some("escalate")}
    /\ confidence # Zero =>
          /\ attempts # <<>>
          /\ Succeeded(attempts[Len(attempts)])
          /\ attempts[Len(attempts)].fix_plan = final_plan

\* three failed verifications that each passed a test, scored 0, escalated
C7_Witness ==
    /\ Finished
    /\ Len(attempts) = MAX_ATTEMPTS
    /\ \A i \in 1..MAX_ATTEMPTS :
          /\ IsSome(attempts[i].verification_result)
          /\ ~Get(attempts[i].verification_result).success
          /\ Get(attempts[i].verification_result).tests_passed > 0
          /\ Get(attempts[i].fix_plan).confidence_score = One
    /\ confidence = Zero
    /\ decision = Some("escalate")

\* C8: one record per attempt started, in order, the k-th with index k
C8_OneRecordPerAttempt ==
    /\ Len(attempts) = Len(hist.started) - (IF MidAttempt THEN 1 ELSE 0)
    /\ \A k \in 1..Len(attempts) : attempts[k].attempt_number = k

\* records of a raised generation, a raised sandbox step and a verification
C8_Witness ==
    /\ Len(attempts) = MAX_ATTEMPTS
    /\ attempts[1].fix_plan = None
    /\ IsSome(attempts[2].fix_plan) /\ attempts[2].verification_result = None
    /\ Succeeded(attempts[3])

\* C9: the tree attempt K is verified on is the copy of the tree the
\* incident started with, changed by attempt K's file changes only
C9_SandboxFresh ==
    pc = "verifying" =>
        sbx = SandboxApply(Disk(hist.repo0, CopyTree(hist.repo0), EmptyTree),
                           Get(cur).files_to_change,
                           Len(Get(cur).files_to_change)).sandbox

\* C10: apply_diffs changes nothing outside the sandbox directory and does
\* not complete for a change that resolves outside it, so up to the cleanup
\* the working tree keeps its fingerprint
C10_ApplyStaysInside ==
    /\ pc = "verifying" => ~Escapes(Get(cur))
    /\ pc \in {"setup", "apply", "verifying", "cleanup", "scoring"} =>
          /\ ComputeDirHash(repo) = ComputeDirHash(hist.repo0)
          /\ outside = EmptyTree

\* C11: a change of the non-ignored working tree made after process_incident
\* started and before the cleanup makes verify_original_unchanged report an
\* integrity violation in cleanup, which removes the sandbox all the same
C11_IntegrityDetects ==
    pc \in {"scoring", "deciding", "resolving"} =>
        /\ ~sbxExists
        /\ sbx = EmptyTree
        /\ ComputeDirHash(repo) # ComputeDirHash(hist.repo0) =>
              integrity = "violation"

\* C12: process_incident never raises; it ends by returning a report, which
\* without a verified plan carries decision escalate and score 0
C12_NeverRaises ==
    /\ pc # "raised"
    /\ (pc = "returned" /\ final_plan = None) =>
          /\ decision = Some("escalate")
          /\ confidence = Zero

\* the reasons recorded for a raised schema validation, setup and apply
RaisedReasons ==
    {Some("SchemaValidationError"), Some("copytree failed"), Some("write failed")}

\* C13: an attempt K whose generation raised SchemaValidation, or whose
\* sandbox setup or apply raised, is recorded as failed with a reason and no
\* verification result; the loop goes on to attempt K+1 when K < MAX_ATTEMPTS
\* and returns without a plan when K = MAX_ATTEMPTS
C13_RaisedAttemptFails ==
    \A k \in 1..Len(attempts) :
        attempts[k].failure_reason \in RaisedReasons =>
           /\ attempts[k].attempt_number = k
           /\ attempts[k].verification_result = None
           /\ k < MAX_ATTEMPTS =>
                 \/ Len(hist.started) > k
                 \/ pc = "generating" /\ attempt_num = k + 1
           /\ k = MAX_ATTEMPTS =>
                 /\ Len(hist.started) = MAX_ATTEMPTS
                 /\ LoopOver
                 /\ final_plan = None

\* generation, setup and apply raised in attempts 1, 2 and 3
C13_Witness ==
    /\ Len(attempts) = MAX_ATTEMPTS
    /\ attempts[1].failure_reason = Some("SchemaValidationError")
    /\ attempts[2].failure_reason = Some("copytree failed")
    /\ attempts[3].failure_reason = Some("write failed")
    /\ hist.started = <<1, 2, 3>>
    /\ pc = "scoring"

\* the client is in use
ClientInUse == pc \in {"client_idle", "generate", "request"}

\* a generate call (of a caller, or the last one of generate_structured) is
\* over
CallOver == pc = "client_idle" /\ IsSome(call)

\* a response generate_structured accepts
Coerces(text) ==
    IsSome(JsonLoads(Clean(text))) /\ IsSome(ModelValidate(Get(JsonLoads(Clean(text)))))

\* C14: once an Orchestrator was constructed in record mode no generate or
\* generate_structured call makes a network request: a cache hit returns the
\* stored text, a miss raises the error about the unpopulated cache
C14_RecordModeOffline ==
    (record_env /\ obs.recorded) =>
        /\ pc # "request"
        /\ (CallOver /\ obs.generates = 1 /\ Get(call).op = "generate") =>
              /\ obs.requests = 0
              /\ fnOut = IF IsSome(obs.entry) THEN Some(Return(Get(obs.entry)))
                         ELSE Some(Raise("GeminiClientError"))

\* C15: every cache entry holds the text a successful model call returned for
\* the prompt of its key, and the cache changes only by the write of such a
\* text, after a miss, outside record mode
C15_CacheHoldsModelText ==
    /\ [](\A f \in cache :
            \E p \in PromptSpace :
                f.key = Key(p) /\ <<p, f.response>> \in obs.model)
    /\ [][cache' # cache =>
            /\ pc = "request"
            /\ ~Get(client).record_mode
            /\ obs.entry = None
            /\ ReadFile(cache, Key(Get(call).prompt)) = None
            /\ \E t \in Texts :
                  /\ cache' = cache \cup {CacheFile(Key(Get(call).prompt), t)}
                  /\ <<Get(call).prompt, t>> \in obs'.model \ obs.model
                  /\ obs'.requests = obs.requests + 1]_vars

\* the cache holds a response that failed to parse, and its corrective
\* re-prompt has been answered
C15_Witness ==
    /\ CallOver
    /\ Get(call).op = "generate_structured"
    /\ ReadFile(cache, Key(StructuredPrompt(Get(fnIn)))) = Some("oops")
    /\ fnOut = Some(Raise("400 INVALID_ARGUMENT"))
    /\ obs.generates = 2

\* C16: get after put returns the text just put and leaves the entries of
\* other prompts alone; generate on a cached prompt returns the stored text
\* with no network request; after a miss outside record mode the text a
\* successful request returned is the entry of the prompt
C16_CacheRoundTrip ==
    /\ ClientInUse =>
          \A P \in PromptSpace, R \in Texts :
             LET after == CachePut(cache, TRUE, P, R) IN
             /\ CacheGet(after, TRUE, P) = Some(R)
             /\ \A Q \in PromptSpace \ {P} :
                   CacheGet(after, TRUE, Q) = CacheGet(cache, TRUE, Q)
    /\ (CallOver /\ Get(call).op = "generate") =>
          /\ IsSome(obs.entry) =>
                /\ fnOut = Some(Return(Get(obs.entry)))
                /\ obs.requests = 0
                /\ CacheGet(cache, TRUE, Get(call).prompt) = obs.entry
          /\ (obs.entry = None /\ Get(fnOut).kind = "return") =>
                /\ obs.requests >= 1
                /\ CacheGet(cache, TRUE, Get(call).prompt) = Some(Get(fnOut).value)

\* generate hit an entry that an earlier generate stored after a retry
C16_Witness ==
    /\ CallOver
    /\ Get(call).op = "generate"
    /\ obs.entry = Some("oops")
    /\ fnOut = Some(Return("oops"))
    /\ obs.requests = 0
    /\ <<Get(call).prompt, "oops">> \in obs.model

\* C17: the corrective re-prompts of generate_structured write nothing to the
\* cache, so no entry is ever filed under a corrective prompt
C17_NoWriteInSchemaRetry ==
    \A q \in CorrectivePrompts : ReadFile(cache, Key(q)) = None

\* C18: generate goes on requesting after quota and transient failures until
\* the initial request and MAX_RETRIES retries have failed, and only then
\* raises QuotaExhaustedError; a fatal error is raised as it is
C18_RetryBudget ==
    /\ obs.requests <= MAX_RETRIES + 1
    /\ CallOver =>
          /\ fnOut = Some(Raise("QuotaExhaustedError")) =>
                obs.requests = MAX_RETRIES + 1
          /\ fnOut = Some(Raise("400 INVALID_ARGUMENT")) =>
                obs.requests \in 1..(MAX_RETRIES + 1)

C20_FingerprintMatches ==
    /\ \A k \in 1..Len(attempts) :
          (IsSome(attempts[k].fix_plan) /\ IsSome(attempts[k].verification_result)) =>
             Get(attempts[k].verification_result).input_hash
                = ContentHash(Get(attempts[k].fix_plan))
    /\ (IsSome(final_plan) /\ IsSome(final_result)) =>
          Get(final_result).input_hash = ContentHash(Get(final_plan))

\* a verified plan with a file change whose commands were replaced
C20_Witness ==
    /\ Len(attempts) >= 1
    /\ IsSome(attempts[1].verification_result)
    /\ Get(attempts[1].fix_plan).files_to_change # <<>>
    /\ Get(attempts[1].fix_plan).verification_steps = test_commands
    /\ test_commands # ResponseCommands
    /\ Get(attempts[1].verification_result).input_hash
          = Get(attempts[1].fix_plan).files_to_change

-----------------------------------------------------------------------------
(* The verifier *)

\* the exit codes run_command returned for the commands of a verify call
ExitCodes(x) == [i \in 1..Len(x.runs) |-> RunCommand(x.runs[i]).code]

\* C21: verify returns success exactly when every command exited with code
\* 0; its log holds every command of the list once and in list order, with
\* the code of its one execution, also behind a failing command; a command
\* that exceeds the timeout has code -1 and makes the verification fail
C21_VerifyRunsAll ==
    pc = "verify_done" =>
        LET x == Get(fnIn)
            result == Get(fnOut)
            codes == ExitCodes(x)
        IN  /\ result.success <=> \A i \in 1..Len(x.steps) : codes[i] = 0
            /\ Len(result.output_log) = Len(x.steps)
            /\ \A i \in 1..Len(x.steps) :
                  result.output_log[i] = [cmd |-> x.steps[i], code |-> codes[i]]
            /\ \A i \in 1..Len(x.steps) :
                  x.runs[i].timeout => codes[i] = -1 /\ ~result.success

\* a first command that timed out, followed by a command that passed
C21_Witness ==
    /\ pc = "verify_done"
    /\ Len(Get(fnIn).steps) = 2
    /\ Get(fnIn).runs[1].timeout
    /\ Get(fnIn).runs[2] = Exited(0, <<Line("passed", 1, 0)>>)
    /\ Len(Get(fnOut).output_log) = 2
    /\ Get(fnOut).output_log[2].code = 0
    /\ ~Get(fnOut).success

\* C22: every verification result has 0 <= tests_passed <= tests_total and
\* a pass_ratio between 0 and 1
C22_PassRatioInRange ==
    pc = "verify_done" =>
        LET result == Get(fnOut)
        IN  /\ result.tests_passed >= 0
            /\ result.tests_passed <= result.tests_total
            /\ FracGeq(PassRatio(result), Zero)
            /\ FracGeq(One, PassRatio(result))

-----------------------------------------------------------------------------
(* The score *)

\* 100 * ScoreGrid times the weighted sum of the claim, for factors on the grid
WeightedSum(f) ==
    35 * f.test_pass_ratio[1] * (ScoreGrid \div f.test_pass_ratio[2])
      + 25 * f.inverse_blast_radius[1] * (ScoreGrid \div f.inverse_blast_radius[2])
      + 15 * f.attempt_penalty[1] * (ScoreGrid \div f.attempt_penalty[2])
      + 15 * f.risk_modifier[1] * (ScoreGrid \div f.risk_modifier[2])
      + 10 * f.self_consistency_score[1]
           * (ScoreGrid \div f.self_consistency_score[2])

\* C23: for factors on the grid the final score is 0.35 test_pass_ratio +
\* 0.25 inverse_blast_radius + 0.15 attempt_penalty + 0.15 risk_modifier +
\* 0.10 self_consistency_score; the weights sum to 1, the score lies in
\* [0, 1], and the calculation uses the weights declared in WEIGHTS
C23_WeightedScore ==
    pc = "score_done" =>
        LET score == Get(fnOut)
        IN  /\ \A i \in 1..Len(FactorNames) :
                  Weight(FactorNames[i]) = WEIGHTS[FactorNames[i]]
            /\ DOMAIN WEIGHTS = {FactorNames[i] : i \in 1..Len(FactorNames)}
            /\ Weight("test_pass_ratio") + Weight("inverse_blast_radius")
                 + Weight("attempt_penalty") + Weight("risk_modifier")
                 + Weight("self_consistency_score") = 100
            /\ score[1] * 100 * ScoreGrid = score[2] * WeightedSum(Get(fnIn))
            /\ FracGeq(score, Zero)
            /\ FracGeq(One, score)

\* factors that are not all equal, scored
C23_Witness ==
    /\ pc = "score_done"
    /\ Get(fnIn).test_pass_ratio = One
    /\ Get(fnIn).inverse_blast_radius = Frac(1, 2)
    /\ Get(fnIn).attempt_penalty = Zero
    /\ Get(fnIn).risk_modifier = One
    /\ Get(fnIn).self_consistency_score = Zero
    /\ Get(fnOut) = Frac(125, 200)

\* the penalty table of the claim
PenaltyOf(k) == CASE k = 1 -> <<1, 1>> [] k = 2 -> <<7, 10>> [] k = 3 -> <<2, 5>>

\* C24: the attempt penalty is 1.0, 0.7, 0.4 for a winning attempt 1, 2, 3;
\* process_incident scores with an attempt number in 1..MAX_ATTEMPTS only,
\* so never with the 0.3 default; and on the same plan and result the final
\* score is strictly lower the later the attempt
C24_AttemptPenalty ==
    /\ pc = "calculate_done" =>
          LET scored == Get(fnOut)
          IN  /\ \A k \in 1..MAX_ATTEMPTS :
                    scored[k].factors.attempt_penalty = PenaltyOf(k)
              /\ \A k \in 1..(MAX_ATTEMPTS - 1) :
                    FracLess(scored[k + 1].score, scored[k].score)
    /\ pc \in {"deciding", "resolving", "reporting", "returned", "raised"}
         /\ IsSome(final_plan) /\ IsSome(final_result) =>
          /\ Get(final_plan).attempt_number \in 1..MAX_ATTEMPTS
          /\ factors.attempt_penalty = PenaltyOf(Get(final_plan).attempt_number)
          /\ factors.attempt_penalty # Frac(DefaultAttemptPenalty, 100)

\* an incident won by its last attempt, scored
C24_Witness ==
    /\ Finished
    /\ IsSome(final_plan)
    /\ IsSome(final_result)
    /\ Get(final_plan).attempt_number = MAX_ATTEMPTS
    /\ factors.attempt_penalty = Frac(4, 10)

-----------------------------------------------------------------------------
(* Reflection *)

\* the failure log an attempt record leaves: the output of its verification,
\* or the text of the error that ended it
FailureLog(rec) ==
    IF IsSome(rec.verification_result)
    THEN Get(rec.verification_result).output_log
    ELSE Get(rec.failure_reason)

\* C25: the prompt of every attempt after the first holds the
\* previous-attempt-failed block, built from the plan and the failure log of
\* the attempt just before it, whether that attempt failed verification or
\* ended in an error
C25_PromptFromPreviousAttempt ==
    LET k == Len(hist.started) IN
    k > 1 /\ IsSome(hist.prompt) =>
        LET reflection == Get(hist.prompt).reflection
            last == attempts[k - 1]
        IN  /\ IsSome(reflection)
            /\ Some(Get(reflection).plan) = last.fix_plan
            /\ Get(reflection).failure = FailureLog(last)

-----------------------------------------------------------------------------
(* Test commands *)

\* the place of the first occurrence of a command in a list
FirstIndex(cmds, c) ==
    CHOOSE i \in 1..Len(cmds) : cmds[i] = c /\ \A j \in 1..(i - 1) : cmds[j] # c

\* the command that goes with a marker file
MarkerCommand(m) ==
    CASE m \in {"pyproject.toml", "setup.py", "requirements.txt"} ->
             "python -m pytest -v"
      [] m = "package.json" -> "npm test"
      [] m = "go.mod" -> "go test ./..."
      [] m = "Cargo.toml" -> "cargo test"

-----------------------------------------------------------------------------
(* Applied and verified *)

\* C30: after a resolve the non-ignored files of the working tree are those
\* of the sandbox tree on which the verification commands of the winning
\* plan were started, for every list of file changes of the plan
C30_AppliedIsVerified ==
    Finished /\ decision = Some("resolve") /\ hist.applied = 1 =>
        SameContent(repo, Get(hist.verified))

-----------------------------------------------------------------------------
(* Concurrent tasks *)

\* every task has made its calls
AllCallsComplete ==
    \A t \in Tasks : threads[t].pc = "idle" /\ threads[t].calls = MaxCalls

\* C27: with several tasks on the one client, the window never admits more
\* than the rate limit, and when all calls are complete total_calls is the
\* number of generate calls that returned and requests_this_minute the
\* number of network tries of the current window
C27_CountersSerialized ==
    pc = "rate_tasks" =>
        /\ shared.tries <= shared.max_rpm
        /\ AllCallsComplete =>
              /\ shared.total_calls = shared.returned
              /\ shared.requests_this_minute = shared.tries

\* C28: a cache read concurrent with a write of the same key sees no entry
\* or one complete entry, and concurrent writers of one key leave one
\* complete entry
C28_CacheWritesAtomic ==
    pc = "cache_tasks" =>
        /\ \A t \in Tasks :
              threads[t].op = "get" /\ threads[t].pc = "done" =>
                  threads[t].seen.kind \in {"miss", "hit"}
        /\ (\A t \in Tasks : threads[t].pc = "done")
             /\ (\E t \in Tasks : threads[t].op = "put") =>
                  /\ IsSome(shared)
                  /\ LoadEntry(Get(shared)).kind = "hit"

-----------------------------------------------------------------------------
(* Replay *)

\* C26: two runs in replay mode on the cache of a complete earlier run end
\* with the same decision, the same number of attempts and the same report
\* contents, also when the first of them resolved and changed the tree
C26_ReplayDeterministic ==
    pc = "replay_done" => Get(fnOut).outcomes[2] = Get(fnOut).outcomes[3]

-----------------------------------------------------------------------------
(* The plan between its generation and the report *)

\* C31: the plan an attempt verifies, and the plan its record keeps, carry
\* the verification commands of the model's response for that attempt: no
\* step between the plan's generation and the report changes its command list
C31_PlanCommandsKept ==
    /\ IsSome(cur) => Get(cur).verification_steps = ResponseCommands
    /\ \A k \in 1..Len(attempts) :
          IsSome(attempts[k].fix_plan) =>
              Get(attempts[k].fix_plan).verification_steps = ResponseCommands
    /\ IsSome(final_plan) => Get(final_plan).verification_steps = ResponseCommands

-----------------------------------------------------------------------------
(* A plan without verification commands *)

\* C32: verify of a plan with no verification command returns success with
\* the counts (0, 0, 0), and the scorer gives that result test_pass_ratio 0
C32_NoCommandsNoCredit ==
    pc = "verify_done" /\ Get(fnIn).steps = <<>> =>
        LET result == Get(fnOut)
            plan == [ResponseToPlan(<<>>, One, 1, None)
                        EXCEPT !.verification_steps = <<>>]
        IN  /\ result.success
            /\ result.tests_passed = 0
            /\ result.tests_failed = 0
            /\ result.tests_total = 0
            /\ Calculate(plan, result, 1, DefaultTotalFiles).factors.test_pass_ratio
                  = Zero

-----------------------------------------------------------------------------
(* The rate limit of one task *)

\* C33: for the requests of one task, the counter and the number of requests
\* sent since the window began are equal and never above the limit, failed
\* tries and retries included; a request that arrives with the counter at the
\* limit is sent only when the window it arrived in is more than 60 s old,
\* and it is the first of a new window; a request that arrives when the
\* window is 60 s old is the first of a new window
C33_WindowNeverExceeded ==
    pc = "rate_single" =>
        /\ shared.requests_this_minute <= shared.max_rpm
        /\ shared.tries <= shared.max_rpm
        /\ shared.requests_this_minute = shared.tries
        /\ shared.slept => shared.sent_at > WINDOW /\ shared.requests_this_minute = 1
        /\ shared.rolled => shared.requests_this_minute = 1 /\ shared.age = 0

\* the sixteenth request of a window, a retry, was delayed under the default
\* limit
C33_Witness ==
    /\ pc = "rate_single"
    /\ shared.max_rpm = DefaultRateLimit
    /\ shared.slept
    /\ ~shared.rolled
    /\ shared.sent_at = WINDOW + 1
    /\ threads.retry = MAX_RETRIES

-----------------------------------------------------------------------------
(* The sandbox base directory *)

SandboxDirInUse == pc \in {"sandbox_new", "sandbox_set", "sandbox_clean"}

\* C34: for every configured sandbox_dir, the fingerprint of the tree does
\* not depend on the sandbox below the base directory, cleanup never reports
\* an integrity mismatch for a tree whose files did not change, and setup
\* never copies the sandbox base into the sandbox
C34_SandboxBaseExcluded ==
    SandboxDirInUse =>
        LET s == Get(fnOut) IN
        /\ DirHash(s.dir) = DirHash([s.dir EXCEPT !.sandbox = None])
        /\ s.integrity # "violation"
        /\ ~s.raised
        /\ ~s.dir.nested

-----------------------------------------------------------------------------
(* Cleanup and the integrity check *)

\* process_incident is running or over
IncidentRunning ==
    pc \in {"start", "generating", "setup", "apply", "verifying", "cleanup",
            "scoring", "deciding", "resolving", "reporting", "returned", "raised"}

\* the pipeline is past the reflective loop and its finally block
PastCleanup ==
    pc \in {"scoring", "deciding", "resolving", "reporting"}
        \/ (Finished /\ hist.started # <<>>)

\* C35: the cleanup with its integrity check runs once on every way out of
\* the reflective loop and not before: while it has not run the working tree
\* is as the incident found it, no resolve has written to it, and after it no
\* sandbox of the incident remains
C35_CleanupOnceBeforeWrites ==
    /\ [](IncidentRunning =>
             /\ PastCleanup => integrity # "unchecked" /\ ~sbxExists
             /\ integrity = "unchecked" => repo = hist.repo0 /\ hist.applied = 0
             /\ hist.applied > 0 => PastCleanup)
    /\ [][integrity' # integrity =>
            /\ pc = "cleanup"
            /\ integrity = "unchecked"
            /\ pc' = "scoring"]_vars

-----------------------------------------------------------------------------
(* The two resolution engines *)

\* C36: for a score that weighted_score computed from factors in [0, 1],
\* decide of analysis/confidence.py with the default threshold returns what
\* the threshold rule of analysis/resolution.py returns: a test_pass_ratio
\* below 0.5 or an inverse_blast_radius below 0.3 keeps the score below 0.85
C36_OverridesNeverDecide ==
    pc = "score_done" =>
        LET f == Get(fnIn)
            score == Get(fnOut)
        IN  /\ Decide(score, Some(f), RESOLVE_THRESHOLD) = DecideByThreshold(score)
            /\ FracLess(f.test_pass_ratio, Frac(1, 2)) =>
                  FracLess(score, Frac(THRESHOLD, 100))
            /\ FracLess(f.inverse_blast_radius, Frac(3, 10)) =>
                  FracLess(score, Frac(THRESHOLD, 100))

\* every factor at 1 but a test_pass_ratio below 0.5: both engines escalate
C36_Witness ==
    /\ pc = "score_done"
    /\ FracLess(Get(fnIn).test_pass_ratio, Frac(1, 2))
    /\ Get(fnIn).test_pass_ratio # Zero
    /\ Get(fnIn).inverse_blast_radius = One
    /\ Get(fnIn).attempt_penalty = One
    /\ Get(fnIn).risk_modifier = One
    /\ Get(fnIn).self_consistency_score = One
    /\ DecideByThreshold(Get(fnOut)) = "escalate"
    /\ Decide(Get(fnOut), Some(Get(fnIn)), RESOLVE_THRESHOLD) = "escalate"

-----------------------------------------------------------------------------
(* Structured calls and the prompt they answer *)

\* the prompt q was built from the caller's prompt p
ContainsPrompt(q, p) == q.kind \in {"task", "structured"} /\ q.arg = p.arg

\* C37: the record a structured call returns was parsed from a response to a
\* prompt that contains the caller's prompt, and the second incident's
\* record does not come from a cache entry the first incident's corrective
\* re-prompt left
C37_RecordAnswersItsPrompt ==
    pc = "structured_done" =>
        LET runs == Get(fnOut) IN
        /\ \A k \in 1..Len(runs) :
              runs[k].out.kind = "return" =>
                  ContainsPrompt(runs[k].prompt, IncidentPrompts[k])
        /\ runs[2].out.kind = "return" /\ runs[2].hit =>
              ReadFile(runs[1].cache, Key(runs[2].prompt)) = None

-----------------------------------------------------------------------------
(* The cache flag and a concurrent generate *)

\* C38: a generate call for a prompt whose entry is in the cache returns the
\* cached text, in record mode too, at whatever step of generate_structured
\* the other task is
C38_CachedPromptIsServed ==
    pc = "flag_tasks" /\ threads.generate = "done" =>
        threads.out = Some(Return(CachedText))

-----------------------------------------------------------------------------
(* Termination and the budget of one incident *)

\* C39: process_incident ends, and on the way it starts at most MAX_ATTEMPTS
\* attempts, sets the sandbox up at most MAX_ATTEMPTS times and sends at most
\* MAX_ATTEMPTS * max_validation_retries * MAX_RETRIES network requests
C39_TerminatesWithinBudget ==
    /\ [](/\ shared.started <= MAX_ATTEMPTS
          /\ shared.setups <= MAX_ATTEMPTS
          /\ shared.setups <= shared.started
          /\ shared.generates <= MAX_ATTEMPTS * max_validation_retries
          /\ shared.requests
                <= MAX_ATTEMPTS * max_validation_retries * MAX_RETRIES
          /\ MAX_ATTEMPTS * max_validation_retries * MAX_RETRIES = 27)
    /\ <>(pc = "over")

\* an incident that used every network request it could
C39_Witness ==
    /\ pc = "over"
    /\ shared.started = MAX_ATTEMPTS
    /\ shared.requests = 27

-----------------------------------------------------------------------------
(* The webhook signature *)

\* C40: with a secret configured, a request whose signature header is
\* missing, empty or not the HMAC-SHA256 of its body under the secret is
\* answered with 401 and queues no incident
C40_BadSignatureRejected ==
    pc = "webhook_done" =>
        LET req == Get(fnIn) IN
        req.secret # "" /\ req.signature # Some(Signature(req.secret, req.body)) =>
            /\ Get(fnOut).code = 401
            /\ Get(fnOut).queued = None

====
